---- MODULE Spec2Model ----
(***************************************************************************)
(* Model of the msgraph-mcp gateway core: the TTL'd key/value cache with   *)
(* its two back-ends (InMemoryCache, RedisCache), the PKCE begin/complete  *)
(* flow of AuthService, TokenService.get_access_token, the session         *)
(* resolver with logout, and the idempotency wrapper _idempotent.          *)
(*                                                                         *)
(* Conventions.                                                            *)
(*  - An optional value (Python `x | None`) is a sequence of length at     *)
(*    most one: None is <<>>, a present value v is <<v>>.                  *)
(*  - A Python string that the code inspects character by character        *)
(*    (scopes, idempotency keys) is a sequence of characters; the empty    *)
(*    sequence is the empty string. "offline_access" is spelt <<"o">>,     *)
(*    the blank is " ".                                                    *)
(*  - Every request handler is a coroutine of one worker in Procs. A step  *)
(*    of the model is one cache operation or one answer of an upstream     *)
(*    (Authorization Server, Graph). With the in-memory back-end all       *)
(*    workers share one event loop, so the code between two awaits is      *)
(*    atomic (see Runnable); with Redis the workers are separate processes *)
(*    and interleave at every cache operation.                             *)
(***************************************************************************)
EXTENDS Integers, Sequences, FiniteSets, TLC

VARIABLES
    backend,    \* "memory" | "redis": settings.cache_mode, fixed at start-up
    now,        \* the clock, seconds (Cache.now / time.time)
    ticks,      \* number of clock advances so far (bounds the model)
    store,      \* the cache: key -> [exp, payload]; DOMAIN store = keys present
    tstore,     \* TokenStore sessions table: session id -> record
    pc,         \* per worker: position in its current handler
    call,       \* per worker: the operation in progress and its arguments
    loc,        \* per worker: local variables of the handler
    res,        \* the handler that returned or raised in the last step, if any
    asLog,      \* requests received by the Authorization Server's token endpoint
    issued,     \* history: what each begin_pkce generated, indexed by state
    nSess,      \* session ids minted so far
    nMint,      \* tokens minted by the Authorization Server so far
    nOps,       \* handlers started so far (bounds the model)
    hRuns,      \* idempotency: number of handler invocations started
    effects,    \* idempotency: externally visible effects, per (tenant,user,tool,key)
    loggedOut,  \* history: the session ids whose auth_logout has returned
    raised,     \* history: the idempotency tuples whose handler has raised
    rejected,   \* history: <<session id, refresh token>> the token endpoint turned down
    jwks        \* OIDCValidator._jwks: None, or the key ids of the cached JWKS

vars == <<backend, now, ticks, store, tstore, pc, call, loc, res, asLog,
          issued, nSess, nMint, nOps, hRuns, effects, loggedOut, raised,
          rejected, jwks>>

authVars == <<tstore, asLog, issued, nSess, nMint>>
idemVars == <<hRuns, effects>>
histVars == <<loggedOut, raised, rejected>>

-----------------------------------------------------------------------------
(* Bounds of the model *)

MaxTicks == 2
MaxOps == 3
MaxScopes == 3
MaxPayloadLen == 4
MaxLinkLen == 5

Procs == {"w1", "w2"}

-----------------------------------------------------------------------------
(* Settings (config.py) and literals of the code *)

access_token_skew_seconds == 300
idempotency_ttl_seconds == 1800
token_cache_ttl_seconds == 900
PkceTtl == 600
TtlFloor == 30

graph_redirect_uri == "cb-default"
graph_client_id == "client"

OfflineAccess == <<"o">>

-----------------------------------------------------------------------------
(* Optional values and small helpers *)

None == <<>>
Some(x) == <<x>>
IsSome(o) == Len(o) > 0
Max(a, b) == IF a >= b THEN a ELSE b
Or(a, b) == IF a # "" THEN a ELSE b

RECURSIVE Member(_, _)
Member(x, seq) ==
    IF seq = <<>> THEN FALSE
    ELSE IF Head(seq) = x THEN TRUE ELSE Member(x, Tail(seq))

(* str.strip() *)
RECURSIVE LStrip(_)
LStrip(s) == IF s # <<>> /\ Head(s) = " " THEN LStrip(Tail(s)) ELSE s

RECURSIVE RStrip(_)
RStrip(s) ==
    IF s # <<>> /\ s[Len(s)] = " " THEN RStrip(SubSeq(s, 1, Len(s) - 1)) ELSE s

Strip(s) == RStrip(LStrip(s))

(* " ".join(list) *)
RECURSIVE Join(_)
Join(list) ==
    IF list = <<>> THEN <<>>
    ELSE IF Len(list) = 1 THEN list[1]
    ELSE list[1] \o <<" ">> \o Join(Tail(list))

(* str.split(): split on runs of blanks, no empty pieces *)
RECURSIVE SplitFrom(_, _, _)
SplitFrom(s, cur, acc) ==
    IF s = <<>> THEN (IF cur = <<>> THEN acc ELSE Append(acc, cur))
    ELSE IF Head(s) = " "
         THEN SplitFrom(Tail(s), <<>>, IF cur = <<>> THEN acc ELSE Append(acc, cur))
         ELSE SplitFrom(Tail(s), Append(cur, Head(s)), acc)

Split(s) == SplitFrom(s, <<>>, <<>>)

RECURSIVE NormalizeFrom(_, _)
NormalizeFrom(scopes, normalized) ==
    IF scopes = <<>> THEN normalized
    ELSE LET scope == Strip(Head(scopes))
         IN NormalizeFrom(Tail(scopes),
                IF scope # <<>> /\ ~Member(scope, normalized)
                THEN Append(normalized, scope) ELSE normalized)

normalize_scopes_always_append(scopes) ==
    Append(NormalizeFrom(scopes, <<>>), OfflineAccess)

normalize_scopes(scopes) ==
    LET normalized == NormalizeFrom(scopes, <<>>)
    IN IF ~Member(OfflineAccess, normalized)
       THEN Append(normalized, OfflineAccess) ELSE normalized

-----------------------------------------------------------------------------
(* The cache back-ends (cache.py) *)

Key(prefix, value) == <<prefix, value>>

SetEntry(st, k, entry) ==
    [x \in (DOMAIN st) \cup {k} |-> IF x = k THEN entry ELSE st[x]]

DelEntry(st, k) == [x \in (DOMAIN st) \ {k} |-> st[x]]

Live_inclusive(st, k) == k \in DOMAIN st /\ now <= st[k].exp
Live(st, k) == k \in DOMAIN st /\ now < st[k].exp

Redis_encrypt(plaintext) == [ciphertext |-> plaintext]
Redis_decrypt(raw) == raw.ciphertext

InMemory_set(st, k, payload, ttl) ==
    SetEntry(st, k, [exp |-> now + ttl, payload |-> payload])

Redis_set_json(st, k, payload, ttl) ==
    SetEntry(st, k, [exp |-> now + ttl, payload |-> Redis_encrypt(payload)])

(* InMemoryCache._get: the value read, and the store it leaves (an expired
   entry is popped by the read) *)
InMemory_get(st, k) == IF Live(st, k) THEN Some(st[k].payload) ELSE None
InMemory_get_store(st, k) ==
    IF k \in DOMAIN st /\ now >= st[k].exp THEN DelEntry(st, k) ELSE st

(* RedisCache.get_json: the server answers nil for an expired key *)
Redis_get_json(st, k) ==
    IF Live(st, k) THEN Some(Redis_decrypt(st[k].payload)) ELSE None

CacheSet(st, k, payload, ttl) ==
    IF backend = "memory" THEN InMemory_set(st, k, payload, ttl)
    ELSE Redis_set_json(st, k, payload, ttl)

CacheGet(st, k) ==
    IF backend = "memory" THEN InMemory_get(st, k) ELSE Redis_get_json(st, k)

CacheGetStore(st, k) ==
    IF backend = "memory" THEN InMemory_get_store(st, k) ELSE st

CacheDelete_noop(st, k) == st
CacheDelete(st, k) == DelEntry(st, k)

ttl_from_expires_at_nofloor(expires_at) ==
    expires_at - now - access_token_skew_seconds

ttl_from_expires_at_noskew(expires_at) == Max(expires_at - now, TtlFloor)

ttl_from_expires_at(expires_at) ==
    Max(expires_at - now - access_token_skew_seconds, TtlFloor)

cache_access_token_plus_skew(st, session_id, token, expires_in) ==
    CacheSet(st, Key("access", session_id), [token |-> token],
             Max(expires_in + access_token_skew_seconds, TtlFloor))

cache_access_token(st, session_id, token, expires_in) ==
    CacheSet(st, Key("access", session_id), [token |-> token],
             Max(expires_in - access_token_skew_seconds, TtlFloor))

cache_pkce(st, state, verifier, scopes, redirect_uri) ==
    CacheSet(st, Key("pkce", state),
             [verifier |-> verifier, scopes |-> scopes, redirect_uri |-> redirect_uri],
             PkceTtl)

cache_session_with_expiry(st, session_id, payload, expires_at) ==
    CacheSet(st, Key("session", session_id), payload, ttl_from_expires_at(expires_at))

cache_refresh_token(st, session_id, refresh_token, scopes, expires_at) ==
    CacheSet(st, Key("refresh", session_id),
             [refresh_token |-> refresh_token, scopes |-> scopes,
              expires_at |-> expires_at],
             ttl_from_expires_at(expires_at))

cache_idempotency_skip(st, key, payload) == st

cache_idempotency(st, key, payload) ==
    CacheSet(st, Key("idempotency", key), payload, idempotency_ttl_seconds)

(* pop_pkce's return value for the payload it read *)
PopPkceResult(payload) ==
    IF ~IsSome(payload) THEN None
    ELSE IF payload[1].verifier = <<>> THEN None
    ELSE Some([verifier |-> payload[1].verifier,
               scopes |-> payload[1].scopes,
               redirect_uri |-> payload[1].redirect_uri])

InMemory_pop_pkce_store_keep(st, state) == InMemory_get_store(st, Key("pkce", state))

(* InMemoryCache.pop_pkce: the store it leaves *)
InMemory_pop_pkce_store(st, state) ==
    LET k == Key("pkce", state)
    IN IF IsSome(InMemory_get(st, k)) THEN DelEntry(st, k)
       ELSE InMemory_get_store(st, k)

-----------------------------------------------------------------------------
(* Workers *)

Idle == [op |-> "none"]
NoLoc == [x |-> 0]
NoOut == [kind |-> "none"]
NoRes == [by |-> "none", call |-> Idle, out |-> NoOut]
Ok(v) == [kind |-> "ok", value |-> v]
MCPError(code, status) == [kind |-> "err", code |-> code, status |-> status]
AuthRequired == MCPError("AUTH_REQUIRED", 401)
UpstreamError == MCPError("UPSTREAM_ERROR", 502)

(* positions between two cache operations with no await in between *)
MidSync == {"c_del", "c_wsess", "c_wacc", "r_cache", "g_rref", "g_wacc",
            "l_dsess", "l_dref", "m_token", "m_rref", "m_wacc", "m_idem"}

(* InMemoryCache lives in one process with one event loop: a coroutine runs
   from one await to the next without interruption. RedisCache is shared by
   the worker processes, which interleave freely. *)
Runnable(p) ==
    backend = "redis" \/ \A q \in Procs \ {p} : pc[q] \notin MidSync

(* Idle workers are interchangeable: a new request goes to the first one. *)
CanStart(p) ==
    /\ pc[p] = "idle"
    /\ nOps < MaxOps
    /\ Runnable(p)
    /\ p = CHOOSE q \in Procs : pc[q] = "idle"

(* the handler `c` of worker p ends with outcome r *)
Finish(p, c, r) ==
    /\ pc' = [pc EXCEPT ![p] = "idle"]
    /\ call' = [call EXCEPT ![p] = Idle]
    /\ loc' = [loc EXCEPT ![p] = NoLoc]
    /\ res' = [by |-> p, call |-> c, out |-> r]

(* the handler `c` of worker p goes on at `label` with locals l *)
Goto(p, c, label, l) ==
    /\ pc' = [pc EXCEPT ![p] = label]
    /\ call' = [call EXCEPT ![p] = c]
    /\ loc' = [loc EXCEPT ![p] = l]
    /\ res' = NoRes

-----------------------------------------------------------------------------
(* Inputs and upstream answers *)

ScopeInputs == { << <<" ", "m">>, <<"m">>, <<" ">> >>, << OfflineAccess, <<"m">> >> }
RedirectInputs == {"", "cb-a"}
(* the begin_pkce requests made: one relies on the configured redirect URI,
   the other names its own *)
BeginInputs ==
    { <<scopes, redirect_uri>> \in ScopeInputs \X RedirectInputs :
        (redirect_uri = "") = (Len(scopes) = 3) }
CompleteRedirects == {"cb-b"}
Codes == {"code"}
Bearers == {"", "good", "bad"}
NoSid == 0
LegacySid == -1
(* answers of the token endpoint to an authorization_code grant for the
   scope string `asked`: expires_in, the tid claim of the access token, scope *)
ExchangeAnswers(asked) ==
    { [expires_in |-> 3600, tid |-> Some("tenant-1"), scope |-> asked],
      [expires_in |-> 20, tid |-> Some("tenant-1"), scope |-> <<>>],
      [expires_in |-> 3600, tid |-> None, scope |-> <<>>] }
Users == {"user-123"}
TickSteps == {600}

(* the states a caller may present: those issued so far and one that never was *)
StateArgs == 1..(Len(issued) + 1)

(* a session id is known to callers once complete_pkce has returned it *)
InFlightSids ==
    {loc[q].session_id : q \in {r \in Procs : pc[r] \in {"c_wsess", "c_wacc"}}}
KnownSids == (1..nSess) \ InFlightSids

EmptyMap == <<>>

(* the one item of the TokenStore sessions table: nothing in the gateway
   writes that table, its content is whatever the deployment holds *)
LegacySession ==
    [tenant_id |-> "tenant-0", user_id |-> "user-0", client_id |-> graph_client_id,
     scopes |-> <<OfflineAccess>>, expires_at |-> 0]

-----------------------------------------------------------------------------
(* Initial state: the components of app.py just constructed *)

InitCommon ==
    /\ backend \in {"memory", "redis"}
    /\ now = 0
    /\ ticks = 0
    /\ tstore = [s \in {LegacySid} |-> LegacySession]
    /\ pc = [p \in Procs |-> "idle"]
    /\ call = [p \in Procs |-> Idle]
    /\ loc = [p \in Procs |-> NoLoc]
    /\ res = NoRes
    /\ asLog = <<>>
    /\ issued = <<>>
    /\ nSess = 0
    /\ nMint = 0
    /\ nOps = 0
    /\ hRuns = 0
    /\ effects = EmptyMap
    /\ loggedOut = {}
    /\ raised = {}
    /\ rejected = {}
    /\ jwks = None

Init == InitCommon /\ store = EmptyMap

-----------------------------------------------------------------------------
(* The clock. A Redis server drops a key when its TTL has run out; the
   in-memory store keeps it until the next read of that key. *)

Expire(st, t) ==
    IF backend = "redis"
    THEN [k \in {x \in DOMAIN st : t < st[x].exp} |-> st[k]]
    ELSE st

Tick(d) ==
    /\ ticks < MaxTicks
    /\ \A q \in Procs : pc[q] \notin MidSync
    /\ now' = now + d
    /\ ticks' = ticks + 1
    /\ store' = Expire(store, now + d)
    /\ res' = NoRes
    /\ UNCHANGED <<backend, pc, call, loc, nOps>>
    /\ UNCHANGED authVars
    /\ UNCHANGED idemVars
    /\ UNCHANGED histVars
    /\ UNCHANGED jwks

-----------------------------------------------------------------------------
(* AuthService.begin_pkce *)

begin_pkce(p) ==
    /\ CanStart(p)
    /\ \E input \in BeginInputs :
          LET scopes == input[1]
              redirect_uri == input[2]
              state == Len(issued) + 1
              verifier == <<state>>
              normalized_scopes == normalize_scopes(scopes)
              effective_redirect_uri == Or(redirect_uri, graph_redirect_uri)
          IN /\ store' = cache_pkce(store, state, verifier, normalized_scopes,
                                    effective_redirect_uri)
             /\ issued' = Append(issued, [verifier |-> verifier, scopes |-> scopes,
                                          redirect_uri |-> redirect_uri, at |-> now])
             /\ Finish(p, [op |-> "begin_pkce", scopes |-> scopes,
                            redirect_uri |-> redirect_uri],
                       Ok([state |-> state]))
             /\ nOps' = nOps + 1
    /\ UNCHANGED <<backend, now, ticks, tstore, asLog, nSess, nMint>>
    /\ UNCHANGED idemVars
    /\ UNCHANGED histVars
    /\ UNCHANGED jwks

-----------------------------------------------------------------------------
(* AuthService.complete_pkce *)

ExchangeRequest_offline_only(code, code_verifier, redirect_uri, scopes) ==
    [grant_type |-> "authorization_code",
     code |-> code,
     code_verifier |-> code_verifier,
     redirect_uri |-> redirect_uri,
     scope |-> IF scopes = <<>> THEN Join(scopes) ELSE OfflineAccess]

(* auth.exchange_code_for_token: the form posted to the token endpoint *)
ExchangeRequest(code, code_verifier, redirect_uri, scopes) ==
    [grant_type |-> "authorization_code",
     code |-> code,
     code_verifier |-> code_verifier,
     redirect_uri |-> redirect_uri,
     scope |-> IF scopes # <<>> THEN Join(scopes) ELSE OfflineAccess]

effective_redirect_uri_caller_first(pkce_redirect_uri, redirect_uri) ==
    Or(redirect_uri, Or(pkce_redirect_uri, graph_redirect_uri))

(* pkce.get("redirect_uri") or redirect_uri or settings.graph_redirect_uri;
   a missing or None value is "" here *)
effective_redirect_uri(pkce_redirect_uri, redirect_uri) ==
    Or(pkce_redirect_uri, Or(redirect_uri, graph_redirect_uri))

(* complete_pkce from the return of pop_pkce to the await of the exchange *)
CompleteAfterPop(p, c, pkce) ==
    IF ~IsSome(pkce) \/ pkce[1].verifier = <<>>
    THEN /\ Finish(p, c, AuthRequired)
         /\ asLog' = asLog
    ELSE LET verifier == pkce[1].verifier
             scopes == pkce[1].scopes
         IN /\ asLog' = Append(asLog,
                   ExchangeRequest(c.code, verifier,
                       effective_redirect_uri(pkce[1].redirect_uri, c.redirect_uri),
                       scopes))
            /\ Goto(p, c, "c_exch", [pkce |-> pkce[1], scopes |-> scopes])

(* the call, with InMemoryCache.pop_pkce (one step) or the GET of
   RedisCache.pop_pkce *)
complete_pkce(p) ==
    /\ CanStart(p)
    /\ \E code \in Codes, state \in StateArgs, redirect_uri \in CompleteRedirects :
          LET c == [op |-> "complete_pkce", code |-> code, state |-> state,
                    redirect_uri |-> redirect_uri]
              k == Key("pkce", state)
              payload == CacheGet(store, k)
          IN /\ nOps' = nOps + 1
             /\ IF backend = "memory"
                THEN /\ store' = InMemory_pop_pkce_store(store, state)
                     /\ CompleteAfterPop(p, c, PopPkceResult(payload))
                ELSE IF IsSome(payload)
                THEN /\ store' = store
                     /\ asLog' = asLog
                     /\ Goto(p, c, "c_del", [payload |-> payload])
                ELSE /\ store' = store
                     /\ CompleteAfterPop(p, c, None)
    /\ UNCHANGED <<backend, now, ticks, tstore, issued, nSess, nMint>>
    /\ UNCHANGED idemVars
    /\ UNCHANGED histVars
    /\ UNCHANGED jwks

(* RedisCache.pop_pkce: the DELETE that follows the GET *)
Redis_pop_pkce_delete(p) ==
    /\ pc[p] = "c_del"
    /\ Runnable(p)
    /\ store' = CacheDelete(store, Key("pkce", call[p].state))
    /\ CompleteAfterPop(p, call[p], PopPkceResult(loc[p].payload))
    /\ UNCHANGED <<backend, now, ticks, tstore, issued, nSess, nMint, nOps>>
    /\ UNCHANGED idemVars
    /\ UNCHANGED histVars
    /\ UNCHANGED jwks

(* the token endpoint answers the authorization_code grant *)
ExchangeResponse(p) ==
    /\ pc[p] = "c_exch"
    /\ Runnable(p)
    /\ \/ /\ Finish(p, call[p], UpstreamError)
          /\ nMint' = nMint
       \/ \E a \in ExchangeAnswers(Join(loc[p].scopes)) :
             LET token_response ==
                     [access_token |-> [jti |-> nMint + 1, tid |-> a.tid],
                      refresh_token |-> <<nMint + 1>>,
                      expires_in |-> a.expires_in,
                      scope |-> a.scope]
                 tenant_id == IF IsSome(a.tid) THEN a.tid[1] ELSE "unknown"
             IN /\ nMint' = nMint + 1
                /\ Goto(p, call[p], "c_me", [scopes |-> loc[p].scopes,
                                             token_response |-> token_response,
                                             tenant_id |-> tenant_id])
    /\ UNCHANGED <<backend, now, ticks, store, tstore, asLog, issued, nSess, nOps>>
    /\ UNCHANGED idemVars
    /\ UNCHANGED histVars
    /\ UNCHANGED jwks

(* GET /me answers; on success the first of the three cache writes *)
MeResponse(p) ==
    /\ pc[p] = "c_me"
    /\ Runnable(p)
    /\ \/ /\ Finish(p, call[p], UpstreamError)
          /\ UNCHANGED <<store, nSess>>
       \/ \E user_id \in Users :
                LET tr == loc[p].token_response
                    split == Split(tr.scope)
                    scopes == IF split # <<>> THEN split ELSE loc[p].scopes
                    session_id == nSess + 1
                    expires_at == now + tr.expires_in
                IN /\ nSess' = nSess + 1
                   /\ store' = cache_refresh_token(store, session_id,
                                                   tr.refresh_token, scopes, expires_at)
                   /\ Goto(p, call[p], "c_wsess",
                           [session_id |-> session_id, scopes |-> scopes,
                            expires_at |-> expires_at, token_response |-> tr,
                            tenant_id |-> loc[p].tenant_id, user_id |-> user_id])
    /\ UNCHANGED <<backend, now, ticks, tstore, asLog, issued, nMint, nOps>>
    /\ UNCHANGED idemVars
    /\ UNCHANGED histVars
    /\ UNCHANGED jwks

SessionPayload(l) ==
    [tenant_id |-> l.tenant_id, user_id |-> l.user_id,
     client_id |-> graph_client_id, scopes |-> l.scopes,
     expires_at |-> l.expires_at]

complete_write_session(p) ==
    /\ pc[p] = "c_wsess"
    /\ Runnable(p)
    /\ store' = cache_session_with_expiry(store, loc[p].session_id,
                                          SessionPayload(loc[p]), loc[p].expires_at)
    /\ Goto(p, call[p], "c_wacc", loc[p])
    /\ UNCHANGED <<backend, now, ticks, tstore, asLog, issued, nSess, nMint, nOps>>
    /\ UNCHANGED idemVars
    /\ UNCHANGED histVars
    /\ UNCHANGED jwks

(* the last write and the return; `seen` records the upstream answers the
   call received *)
complete_write_access(p) ==
    /\ pc[p] = "c_wacc"
    /\ Runnable(p)
    /\ LET l == loc[p]
           tr == l.token_response
       IN /\ store' = cache_access_token(store, l.session_id, tr.access_token,
                                         tr.expires_in)
          /\ Finish(p, call[p],
                    [kind |-> "ok",
                     value |-> [graph_session_id |-> l.session_id,
                                granted_scopes |-> l.scopes,
                                expires_in |-> tr.expires_in],
                     seen |-> [token_response |-> tr, user_id |-> l.user_id]])
    /\ UNCHANGED <<backend, now, ticks, tstore, asLog, issued, nSess, nMint, nOps>>
    /\ UNCHANGED idemVars
    /\ UNCHANGED histVars
    /\ UNCHANGED jwks

-----------------------------------------------------------------------------
(* SessionResolver.resolve (session.py) *)

validate_any(bearer_token) == TRUE

(* OIDCValidator.validate: the caller's bearer is accepted or not *)
validate(bearer_token) == bearer_token = "good"

(* record["session_id"] = mcp_session_id *)
Inject(record, mcp_session_id) ==
    [f \in (DOMAIN record) \cup {"session_id"} |->
        IF f = "session_id" THEN mcp_session_id ELSE record[f]]

(* TokenStore.get_session *)
TokenStore_get_session(session_id) ==
    IF session_id \in DOMAIN tstore THEN Some(tstore[session_id]) ELSE None

(* the outcome of resolve on cache content st, up to the write-back of a
   record found in the token store *)
resolve_outcome(st, mcp_session_id, bearer_token) ==
    IF mcp_session_id = NoSid THEN AuthRequired
    ELSE IF bearer_token = "" THEN AuthRequired
    ELSE IF ~validate(bearer_token) THEN AuthRequired
    ELSE LET cached == CacheGet(st, Key("session", mcp_session_id))
         IN IF IsSome(cached) THEN Ok(Inject(cached[1], mcp_session_id))
            ELSE LET session == TokenStore_get_session(mcp_session_id)
                 IN IF ~IsSome(session) THEN AuthRequired
                    ELSE [kind |-> "store", value |-> Inject(session[1], mcp_session_id)]

(* the cache after resolve's get_session. The in-memory back-end hands out the
   stored dict itself, so the injected session_id lands in the cache too. *)
resolve_store(st, mcp_session_id, bearer_token) ==
    IF mcp_session_id = NoSid \/ ~validate(bearer_token) THEN st
    ELSE LET k == Key("session", mcp_session_id)
             cached == CacheGet(st, k)
         IN IF IsSome(cached) /\ backend = "memory"
            THEN SetEntry(st, k, [exp |-> st[k].exp,
                                  payload |-> Inject(cached[1], mcp_session_id)])
            ELSE CacheGetStore(st, k)

SidArgs == {NoSid, LegacySid} \cup KnownSids

resolve(p) ==
    /\ CanStart(p)
    /\ \E mcp_session_id \in SidArgs, bearer_token \in Bearers :
          LET c == [op |-> "resolve", session_id |-> mcp_session_id,
                    bearer |-> bearer_token]
              o == resolve_outcome(store, mcp_session_id, bearer_token)
          IN /\ store' = resolve_store(store, mcp_session_id, bearer_token)
             /\ IF o.kind = "store"
                THEN Goto(p, c, "r_cache", [session |-> o.value])
                ELSE Finish(p, c, o)
    /\ nOps' = nOps + 1
    /\ UNCHANGED <<backend, now, ticks>>
    /\ UNCHANGED authVars
    /\ UNCHANGED idemVars
    /\ UNCHANGED histVars
    /\ UNCHANGED jwks

(* self._cache.cache_session(...): RedisCache has it, InMemoryCache does not;
   auth_logout goes on with the deletions when its resolve has returned *)
resolve_cache_session(p) ==
    /\ pc[p] = "r_cache"
    /\ Runnable(p)
    /\ IF backend = "redis"
       THEN /\ store' = CacheSet(store, Key("session", call[p].session_id),
                                 loc[p].session, token_cache_ttl_seconds)
            /\ IF call[p].op = "auth_logout"
               THEN Goto(p, call[p], "l_dsess", NoLoc)
               ELSE Finish(p, call[p], Ok(loc[p].session))
       ELSE /\ store' = store
            /\ Finish(p, call[p], [kind |-> "err", code |-> "AttributeError",
                                   status |-> 500])
    /\ UNCHANGED <<backend, now, ticks, nOps>>
    /\ UNCHANGED authVars
    /\ UNCHANGED idemVars
    /\ UNCHANGED histVars
    /\ UNCHANGED jwks

-----------------------------------------------------------------------------
(* auth_logout (app.py) *)

(* _resolve_session, up to the cache write-back of a token-store record *)
auth_logout(p) ==
    /\ CanStart(p)
    /\ \E graph_session_id \in SidArgs, bearer_token \in Bearers :
          LET c == [op |-> "auth_logout", session_id |-> graph_session_id,
                    bearer |-> bearer_token]
              o == resolve_outcome(store, graph_session_id, bearer_token)
          IN /\ store' = resolve_store(store, graph_session_id, bearer_token)
             /\ IF o.kind = "store"
                THEN Goto(p, c, "r_cache", [session |-> o.value])
                ELSE IF o.kind = "ok"
                     THEN Goto(p, c, "l_dsess", NoLoc)
                     ELSE Finish(p, c, o)
    /\ nOps' = nOps + 1
    /\ UNCHANGED <<backend, now, ticks>>
    /\ UNCHANGED authVars
    /\ UNCHANGED idemVars
    /\ UNCHANGED histVars
    /\ UNCHANGED jwks

(* cache.delete_session(graph_session_id) *)
logout_delete_session(p) ==
    /\ pc[p] = "l_dsess"
    /\ Runnable(p)
    /\ store' = CacheDelete(store, Key("session", call[p].session_id))
    /\ Goto(p, call[p], "l_dref", NoLoc)
    /\ UNCHANGED <<backend, now, ticks, nOps>>
    /\ UNCHANGED authVars
    /\ UNCHANGED idemVars
    /\ UNCHANGED histVars
    /\ UNCHANGED jwks

(* cache.delete_refresh_token(graph_session_id); return {"status": "logged_out"} *)
logout_delete_refresh(p) ==
    /\ pc[p] = "l_dref"
    /\ Runnable(p)
    /\ store' = CacheDelete(store, Key("refresh", call[p].session_id))
    /\ loggedOut' = loggedOut \cup {call[p].session_id}
    /\ raised' = raised
    /\ rejected' = rejected
    /\ UNCHANGED jwks
    /\ Finish(p, call[p], Ok([status |-> "logged_out"]))
    /\ UNCHANGED <<backend, now, ticks, nOps>>
    /\ UNCHANGED authVars
    /\ UNCHANGED idemVars

(* The session handlers on their own: session 1 exists with the three
   records complete_pkce writes for a token response with the given
   expires_in (3600, or 20: TTL 30 s, gone after the first clock advance);
   the token store holds its one legacy item. *)
SessionRecords(expires_in) ==
    LET scopes == <<<<"m">>, OfflineAccess>>
        s0 == cache_refresh_token(EmptyMap, 1, <<0>>, scopes, expires_in)
        s1 == cache_session_with_expiry(s0, 1,
                 [tenant_id |-> "tenant-1", user_id |-> "user-123",
                  client_id |-> graph_client_id, scopes |-> scopes,
                  expires_at |-> expires_in],
                 expires_in)
    IN cache_access_token(s1, 1, [jti |-> 0, tid |-> Some("tenant-1")], expires_in)

InitSession ==
    /\ backend \in {"memory", "redis"}
    /\ now = 0
    /\ ticks = 0
    /\ tstore = [s \in {LegacySid} |-> LegacySession]
    /\ pc = [p \in Procs |-> "idle"]
    /\ call = [p \in Procs |-> Idle]
    /\ loc = [p \in Procs |-> NoLoc]
    /\ res = NoRes
    /\ asLog = <<>>
    /\ issued = <<>>
    /\ nSess = 1
    /\ nMint = 1
    /\ nOps = 0
    /\ hRuns = 0
    /\ effects = EmptyMap
    /\ loggedOut = {}
    /\ raised = {}
    /\ rejected = {}
    /\ jwks = None
    /\ \E expires_in \in {3600, 20} : store = SessionRecords(expires_in)

NextSession ==
    \/ \E d \in TickSteps : Tick(d)
    \/ \E p \in Procs : resolve(p)
    \/ \E p \in Procs : resolve_cache_session(p)
    \/ \E p \in Procs : auth_logout(p)
    \/ \E p \in Procs : logout_delete_session(p)
    \/ \E p \in Procs : logout_delete_refresh(p)

SpecSession == InitSession /\ [][NextSession]_vars

-----------------------------------------------------------------------------
(* TokenService.get_access_token (services.py) *)

Cache_get_access_token_none(st, session_id) == None

(* Cache.get_access_token: the cached token, if a live entry holds one *)
Cache_get_access_token(st, session_id) ==
    LET payload == CacheGet(st, Key("access", session_id))
    IN IF ~IsSome(payload) THEN None ELSE Some(payload[1].token)

HasRefreshToken_any(stored) == IsSome(stored)

(* not (not stored or not stored.get("refresh_token")) *)
HasRefreshToken(stored) == IsSome(stored) /\ stored[1].refresh_token # <<>>

RefreshRequest_rawscope(refresh_token, scopes) ==
    [grant_type |-> "refresh_token",
     refresh_token |-> refresh_token,
     scope |-> Join(scopes)]

(* _refresh_token: the form posted to the token endpoint *)
RefreshRequest(refresh_token, scopes) ==
    [grant_type |-> "refresh_token",
     refresh_token |-> refresh_token,
     scope |-> Join(normalize_scopes(scopes))]

PayloadRefreshToken_previous(answer, refresh_token) == refresh_token

(* payload.get("refresh_token", refresh_token) *)
PayloadRefreshToken(answer, refresh_token) ==
    IF IsSome(answer) THEN answer[1] ELSE refresh_token

(* answers of the token endpoint to a refresh_token grant for the scope
   string `asked`; `fresh` is a token it has not issued before. The
   refresh_token member is absent (None), a new token, or empty. *)
RefreshAnswers(asked, fresh) ==
    { [refresh_token |-> Some(<<fresh>>), expires_in |-> 3600, scope |-> asked],
      [refresh_token |-> None, expires_in |-> 20, scope |-> <<>>],
      [refresh_token |-> Some(<<>>), expires_in |-> 3600, scope |-> <<>>] }

TokenSids == {1, 2}

(* the call and cache.get_access_token *)
get_access_token(p) ==
    /\ CanStart(p)
    /\ \E session_id \in TokenSids :
          LET c == [op |-> "get_access_token", session_id |-> session_id]
              cached == Cache_get_access_token(store, session_id)
          IN /\ store' = CacheGetStore(store, Key("access", session_id))
             /\ IF IsSome(cached)
                THEN Finish(p, c, [kind |-> "ok", value |-> cached[1],
                                   refreshed |-> FALSE])
                ELSE Goto(p, c, "g_rref", NoLoc)
    /\ nOps' = nOps + 1
    /\ UNCHANGED <<backend, now, ticks>>
    /\ UNCHANGED authVars
    /\ UNCHANGED idemVars
    /\ UNCHANGED histVars
    /\ UNCHANGED jwks

(* cache.get_refresh_token, then the refresh request is sent *)
gat_read_refresh(p) ==
    /\ pc[p] = "g_rref"
    /\ Runnable(p)
    /\ LET k == Key("refresh", call[p].session_id)
           stored == CacheGet(store, k)
       IN /\ store' = CacheGetStore(store, k)
          /\ IF ~HasRefreshToken(stored)
             THEN /\ Finish(p, call[p], AuthRequired)
                  /\ asLog' = asLog
             ELSE /\ asLog' = Append(asLog, RefreshRequest(stored[1].refresh_token,
                                                           stored[1].scopes))
                  /\ Goto(p, call[p], "g_await",
                          [refresh_token |-> stored[1].refresh_token])
    /\ UNCHANGED <<backend, now, ticks, tstore, issued, nSess, nMint, nOps>>
    /\ UNCHANGED idemVars
    /\ UNCHANGED histVars
    /\ UNCHANGED jwks

(* the token endpoint answers the refresh_token grant; on success the
   Refresh-Token Record is rewritten, on failure AUTH_REQUIRED is raised
   and the cache is left as it is *)
RefreshResponse(p) ==
    /\ pc[p] = "g_await"
    /\ Runnable(p)
    /\ \/ /\ Finish(p, call[p], AuthRequired)
          /\ rejected' = rejected \cup {<<call[p].session_id, loc[p].refresh_token>>}
          /\ UNCHANGED <<store, nMint>>
       \/ \E a \in RefreshAnswers(asLog[Len(asLog)].scope, nMint + 2) :
             LET payload ==
                     [access_token |-> [jti |-> nMint + 1, tid |-> Some("tenant-1")],
                      refresh_token |-> a.refresh_token,
                      expires_in |-> a.expires_in,
                      scope |-> a.scope]
                 token_response ==
                     [access_token |-> payload.access_token,
                      refresh_token |->
                          PayloadRefreshToken(payload.refresh_token,
                                              loc[p].refresh_token),
                      expires_in |-> payload.expires_in,
                      scope |-> payload.scope]
                 expires_at == now + token_response.expires_in
             IN /\ nMint' = nMint + 2
                /\ rejected' = rejected
                /\ store' = cache_refresh_token(store, call[p].session_id,
                                                token_response.refresh_token,
                                                Split(token_response.scope), expires_at)
                /\ Goto(p, call[p], "g_wacc",
                        [refresh_token |-> loc[p].refresh_token,
                         answer |-> payload,
                         token_response |-> token_response])
    /\ UNCHANGED <<backend, now, ticks, tstore, asLog, issued, nSess, nOps>>
    /\ UNCHANGED idemVars
    /\ UNCHANGED <<loggedOut, raised, jwks>>

(* the access entry is rewritten and the token returned; `seen` records the
   refresh token the call had read and the answer of the token endpoint *)
gat_write_access(p) ==
    /\ pc[p] = "g_wacc"
    /\ Runnable(p)
    /\ LET tr == loc[p].token_response
       IN /\ store' = cache_access_token(store, call[p].session_id,
                                         tr.access_token, tr.expires_in)
          /\ Finish(p, call[p],
                    [kind |-> "ok", value |-> tr.access_token, refreshed |-> TRUE,
                     seen |-> [refresh_token |-> loc[p].refresh_token,
                               answer |-> loc[p].answer]])
    /\ UNCHANGED <<backend, now, ticks, nOps>>
    /\ UNCHANGED authVars
    /\ UNCHANGED idemVars
    /\ UNCHANGED histVars
    /\ UNCHANGED jwks

(* The token service on its own: session 1 exists, with or without a live
   access entry (absent, 30 s left, 3300 s left) and with or without a
   Refresh-Token Record (absent, with a token, with an empty token), each
   as the cache helpers write them; session 2 has no record at all. *)
InitSessionPayload ==
    [tenant_id |-> "tenant-1", user_id |-> "user-123",
     client_id |-> graph_client_id, scopes |-> <<<<"m">>, OfflineAccess>>,
     expires_at |-> 3600]

InitToken ==
    /\ InitCommon
    /\ \E access \in {0, 330, 3600}, refresh \in {"absent", "token", "empty"} :
          LET s0 == cache_session_with_expiry(EmptyMap, 1, InitSessionPayload, 3600)
              s1 == IF refresh = "absent" THEN s0
                    ELSE cache_refresh_token(s0, 1,
                            IF refresh = "token" THEN <<0>> ELSE <<>>,
                            <<<<"m">>, OfflineAccess>>, 3600)
              s2 == IF access = 0 THEN s1
                    ELSE cache_access_token(s1, 1, [jti |-> 0, tid |-> Some("tenant-1")],
                                            access)
          IN store = s2

NextToken ==
    \/ \E d \in TickSteps : Tick(d)
    \/ \E p \in Procs : get_access_token(p)
    \/ \E p \in Procs : gat_read_refresh(p)
    \/ \E p \in Procs : RefreshResponse(p)
    \/ \E p \in Procs : gat_write_access(p)

SpecToken == InitToken /\ [][NextToken]_vars

-----------------------------------------------------------------------------
(* auth_logout beside get_access_token: session 1 has its Session Record
   and its Refresh-Token Record and no Access-Token Cache Entry, so that a
   get_access_token for it goes to the token endpoint *)
InitLogout ==
    /\ backend \in {"memory", "redis"}
    /\ now = 0
    /\ ticks = 0
    /\ tstore = [s \in {LegacySid} |-> LegacySession]
    /\ pc = [p \in Procs |-> "idle"]
    /\ call = [p \in Procs |-> Idle]
    /\ loc = [p \in Procs |-> NoLoc]
    /\ res = NoRes
    /\ asLog = <<>>
    /\ issued = <<>>
    /\ nSess = 1
    /\ nMint = 1
    /\ nOps = 0
    /\ hRuns = 0
    /\ effects = EmptyMap
    /\ loggedOut = {}
    /\ raised = {}
    /\ rejected = {}
    /\ jwks = None
    /\ store = DelEntry(SessionRecords(3600), Key("access", 1))

NextLogout ==
    \/ \E p \in Procs : auth_logout(p)
    \/ \E p \in Procs : resolve_cache_session(p)
    \/ \E p \in Procs : logout_delete_session(p)
    \/ \E p \in Procs : logout_delete_refresh(p)
    \/ \E p \in Procs : get_access_token(p)
    \/ \E p \in Procs : gat_read_refresh(p)
    \/ \E p \in Procs : RefreshResponse(p)
    \/ \E p \in Procs : gat_write_access(p)

SpecLogout == InitLogout /\ [][NextLogout]_vars

-----------------------------------------------------------------------------
(* _idempotent (app.py): the Idempotency Coordinator around a tool handler *)

idempotency_cache_key_no_user(session, tool_name, key) ==
    session.tenant_id \o <<":">> \o tool_name \o <<":">> \o key

(* f"{session['tenant_id']}:{session['user_id']}:{tool_name}:{key}" *)
idempotency_cache_key(session, tool_name, key) ==
    session.tenant_id \o <<":">> \o session.user_id \o <<":">>
        \o tool_name \o <<":">> \o key

get_idempotency(st, key) == CacheGet(st, Key("idempotency", key))

(* hashlib.sha256(json.dumps(result, sort_keys=True)).hexdigest() *)
result_hash(result) == <<"sha256", result>>

IdemSessions ==
    { [tenant_id |-> <<"t">>, user_id |-> <<"u">>],
      [tenant_id |-> <<"t">>, user_id |-> <<"v">>] }
ToolNames == { <<"mail_send_draft">> }
IdemKeys == { <<>>, <<"k">> }

IdemTuple(c) == <<c.session.tenant_id, c.session.user_id, c.tool_name, c.key>>

IdemKeyOf(c) == idempotency_cache_key(c.session, c.tool_name, c.key)

(* the call, up to the point where the handler is awaited or the cached
   result returned; hRuns counts the invocations of handlers *)
idempotent(p) ==
    /\ CanStart(p)
    /\ \E session \in IdemSessions, tool_name \in ToolNames, key \in IdemKeys :
          LET c == [op |-> "idempotent", session |-> session,
                    tool_name |-> tool_name, key |-> key]
              cached == get_idempotency(store, IdemKeyOf(c))
          IN IF key = <<>>
             THEN /\ store' = store
                  /\ hRuns' = hRuns + 1
                  /\ Goto(p, c, "h_run", [run |-> hRuns + 1])
             ELSE /\ store' = CacheGetStore(store, Key("idempotency", IdemKeyOf(c)))
                  /\ IF IsSome(cached) /\ "result" \in DOMAIN cached[1]
                     THEN /\ hRuns' = hRuns
                          /\ Finish(p, c, [kind |-> "ok", value |-> cached[1].result,
                                            ran |-> FALSE])
                     ELSE /\ hRuns' = hRuns + 1
                          /\ Goto(p, c, "h_run", [run |-> hRuns + 1])
    /\ nOps' = nOps + 1
    /\ UNCHANGED <<backend, now, ticks, effects>>
    /\ UNCHANGED authVars
    /\ UNCHANGED histVars
    /\ UNCHANGED jwks

HandlerReturn_always_caches(p) ==
    /\ pc[p] = "h_run"
    /\ Runnable(p)
    /\ LET t == IdemTuple(call[p])
           result == [id |-> loc[p].run]
       IN /\ effects' = IF t \in DOMAIN effects
                         THEN [effects EXCEPT ![t] = @ + 1]
                         ELSE [x \in (DOMAIN effects) \cup {t} |->
                                  IF x = t THEN 1 ELSE effects[x]]
          /\ store' = cache_idempotency(store, IdemKeyOf(call[p]),
                               [result |-> result, hash |-> result_hash(result)])
          /\ Finish(p, call[p], [kind |-> "ok", value |-> result, ran |-> TRUE])
    /\ UNCHANGED <<backend, now, ticks, nOps, hRuns>>
    /\ UNCHANGED authVars
    /\ UNCHANGED histVars
    /\ UNCHANGED jwks

(* the upstream API has carried out the handler's request: the effect is
   visible there, and the result names the invocation that caused it; a
   call with a key stores the result before it returns *)
HandlerReturn(p) ==
    /\ pc[p] = "h_run"
    /\ Runnable(p)
    /\ LET t == IdemTuple(call[p])
           result == [id |-> loc[p].run]
       IN /\ effects' = IF t \in DOMAIN effects
                         THEN [effects EXCEPT ![t] = @ + 1]
                         ELSE [x \in (DOMAIN effects) \cup {t} |->
                                  IF x = t THEN 1 ELSE effects[x]]
          /\ store' = IF call[p].key = <<>> THEN store
                      ELSE cache_idempotency(store, IdemKeyOf(call[p]),
                               [result |-> result, hash |-> result_hash(result)])
          /\ Finish(p, call[p], [kind |-> "ok", value |-> result, ran |-> TRUE])
    /\ UNCHANGED <<backend, now, ticks, nOps, hRuns>>
    /\ UNCHANGED authVars
    /\ UNCHANGED histVars
    /\ UNCHANGED jwks

HandlerRaise_caches(p) ==
    /\ pc[p] = "h_run"
    /\ Runnable(p)
    /\ Finish(p, call[p], UpstreamError)
    /\ raised' = raised \cup {IdemTuple(call[p])}
    /\ store' = IF call[p].key = <<>> THEN store
                ELSE cache_idempotency(store, IdemKeyOf(call[p]),
                         [result |-> [id |-> 0], hash |-> result_hash([id |-> 0])])
    /\ UNCHANGED <<backend, now, ticks, nOps, loggedOut, rejected, jwks>>
    /\ UNCHANGED authVars
    /\ UNCHANGED idemVars

(* the upstream API refuses the handler's request: the exception leaves
   _idempotent at `await handler()`, nothing is cached *)
HandlerRaise(p) ==
    /\ pc[p] = "h_run"
    /\ Runnable(p)
    /\ Finish(p, call[p], UpstreamError)
    /\ raised' = raised \cup {IdemTuple(call[p])}
    /\ UNCHANGED <<backend, now, ticks, store, nOps, loggedOut, rejected, jwks>>
    /\ UNCHANGED authVars
    /\ UNCHANGED idemVars

InitIdem == InitCommon /\ store = EmptyMap

(* _idempotency_cache_key on its own. tenant_id is the `tid` claim of the
   upstream token and user_id the `id` of /me, both taken as they come;
   the tool names are those of app.py; the key is the client's. *)
KeySessions ==
    { [tenant_id |-> <<"t">>, user_id |-> <<"u">>],
      [tenant_id |-> <<"t">>, user_id |-> <<"x">>],
      [tenant_id |-> <<"t">>, user_id |-> <<"u", ":", "x">>],
      [tenant_id |-> <<"t", ":", "u">>, user_id |-> <<"x">>] }
KeyTools == { <<"mail_send_draft">>, <<"mail_reply">> }
KeyKeys == { <<"k">>, <<"x">>, <<":">>, <<"k", ":", "k">>, <<"x", ":", "k">> }

idempotency_cache_key_call(p) ==
    /\ pc[p] = "f_call"
    /\ call[p].op = "idempotency_cache_key"
    /\ Finish(p, call[p],
              Ok(idempotency_cache_key(call[p].session, call[p].tool_name, call[p].key)))
    /\ UNCHANGED <<backend, now, ticks, store, nOps>>
    /\ UNCHANGED authVars
    /\ UNCHANGED idemVars
    /\ UNCHANGED histVars
    /\ UNCHANGED jwks

(* normalize_scopes on its own: lists of at most MaxScopes scope strings,
   with blanks around them, empty ones, repeats and offline_access *)
ScopeStrs ==
    { <<"m">>, <<" ", "m">>, <<"m", " ">>, <<"r">>, <<" ">>, <<>>,
      OfflineAccess, <<" ">> \o OfflineAccess }
ScopeLists == UNION { [1..n -> ScopeStrs] : n \in 0..MaxScopes }

normalize_scopes_call(p) ==
    /\ pc[p] = "f_call"
    /\ call[p].op = "normalize_scopes"
    /\ Finish(p, call[p], Ok(normalize_scopes(call[p].scopes)))
    /\ UNCHANGED <<backend, now, ticks, store, nOps>>
    /\ UNCHANGED authVars
    /\ UNCHANGED idemVars
    /\ UNCHANGED histVars
    /\ UNCHANGED jwks

(* the request complete_pkce sends for a PKCE Transaction it has popped:
   the transaction was stored with or without a redirect URI, the caller
   gives one or none *)
StoredRedirects == {"", "cb-a"}

exchange_request_call(p) ==
    /\ pc[p] = "f_call"
    /\ call[p].op = "exchange_request"
    /\ Finish(p, call[p],
              Ok(ExchangeRequest("code", <<1>>,
                     effective_redirect_uri(call[p].stored, call[p].redirect_uri),
                     <<OfflineAccess>>)))
    /\ UNCHANGED <<backend, now, ticks, store, nOps>>
    /\ UNCHANGED authVars
    /\ UNCHANGED idemVars
    /\ UNCHANGED histVars
    /\ UNCHANGED jwks

(* base64.b64decode(payload) with validate left at False, as binascii
   decodes it: a character outside the alphabet is skipped, "=" ends the
   input once the open quad is padded to four, and data that ends inside a
   quad is rejected with binascii.Error. Two digits of the alphabet, "A" (0)
   and "/" (63), are enough to spell whole and padded quads. *)
B64Digit(ch) == IF ch = "A" THEN 0 ELSE IF ch = "/" THEN 63 ELSE 64

RECURSIVE a2b_base64(_, _, _, _, _)
a2b_base64(data, quad_pos, leftchar, pads, out) ==
    IF data = <<>>
    THEN [ok |-> quad_pos = 0, bytes |-> out]
    ELSE LET ch == Head(data)
             d == B64Digit(ch)
         IN IF ch = "="
            THEN IF quad_pos >= 2 /\ quad_pos + pads + 1 >= 4
                 THEN [ok |-> TRUE, bytes |-> out]
                 ELSE a2b_base64(Tail(data), quad_pos, leftchar,
                                 IF quad_pos >= 2 THEN pads + 1 ELSE pads, out)
            ELSE IF d >= 64
            THEN a2b_base64(Tail(data), quad_pos, leftchar, pads, out)
            ELSE CASE quad_pos = 0 -> a2b_base64(Tail(data), 1, d, 0, out)
                   [] quad_pos = 1 ->
                        a2b_base64(Tail(data), 2, d % 16, 0,
                                   Append(out, leftchar * 4 + d \div 16))
                   [] quad_pos = 2 ->
                        a2b_base64(Tail(data), 3, d % 4, 0,
                                   Append(out, leftchar * 16 + d \div 4))
                   [] OTHER ->
                        a2b_base64(Tail(data), 0, 0, 0,
                                   Append(out, leftchar * 64 + d))

b64decode(payload) == a2b_base64(payload, 0, 0, 0, <<>>)

(* binascii.Error is no MCPError: it leaves decode_base64_payload as it is *)
BinasciiError == [kind |-> "err", code |-> "binascii.Error", status |-> 0]

decode_base64_payload_boundary_excluded(payload, max_bytes) ==
    LET raw == b64decode(payload)
    IN IF ~raw.ok THEN BinasciiError
       ELSE IF Len(raw.bytes) >= max_bytes THEN MCPError("VALIDATION_ERROR", 413)
       ELSE Ok(raw.bytes)

decode_base64_payload(payload, max_bytes) ==
    LET raw == b64decode(payload)
    IN IF ~raw.ok THEN BinasciiError
       ELSE IF Len(raw.bytes) > max_bytes THEN MCPError("VALIDATION_ERROR", 413)
       ELSE Ok(raw.bytes)

(* decode_base64_payload on its own: payloads of at most MaxPayloadLen
   characters (digits, padding, a character outside the alphabet) against
   limits of nought to three bytes *)
Payloads == UNION { [1..n -> {"A", "/", "=", "!"}] : n \in 0..MaxPayloadLen }

decode_base64_payload_call(p) ==
    /\ pc[p] = "f_call"
    /\ call[p].op = "decode_base64_payload"
    /\ Finish(p, call[p], decode_base64_payload(call[p].payload, call[p].max_bytes))
    /\ UNCHANGED <<backend, now, ticks, store, nOps>>
    /\ UNCHANGED authVars
    /\ UNCHANGED idemVars
    /\ UNCHANGED histVars
    /\ UNCHANGED jwks

(* _next_cursor (tools/mail.py, tools/drive.py, tools/calendar.py): the
   link is a sequence of pieces, the parameter name "$skiptoken" being one
   piece, so that the separator "$skiptoken=" is that piece followed by "=".
   payload.get("@odata.nextLink") is None when the member is absent. *)
HasSkiptoken(next_link, i) ==
    i < Len(next_link) /\ next_link[i] = "$skiptoken" /\ next_link[i + 1] = "="

(* next_link.split("$skiptoken=")[-1]: what follows the last separator *)
SplitLast(next_link) ==
    LET i == CHOOSE j \in 1..Len(next_link) :
                 /\ HasSkiptoken(next_link, j)
                 /\ \A k \in (j + 1)..Len(next_link) : ~HasSkiptoken(next_link, k)
    IN SubSeq(next_link, i + 2, Len(next_link))

next_cursor(next_link) ==
    IF ~IsSome(next_link) \/ next_link[1] = <<>> THEN None
    ELSE IF \E i \in 1..Len(next_link[1]) : HasSkiptoken(next_link[1], i)
    THEN Some(SplitLast(next_link[1]))
    ELSE None

(* the links of the responses: absent, or at most MaxLinkLen pieces *)
NextLinks ==
    {None} \cup { Some(l) : l \in UNION { [1..n -> {"$skiptoken", "=", "&", "a"}] :
                                            n \in 0..MaxLinkLen } }

next_cursor_call(p) ==
    /\ pc[p] = "f_call"
    /\ call[p].op = "next_cursor"
    /\ Finish(p, call[p], Ok(next_cursor(call[p].next_link)))
    /\ UNCHANGED <<backend, now, ticks, store, nOps>>
    /\ UNCHANGED authVars
    /\ UNCHANGED idemVars
    /\ UNCHANGED histVars
    /\ UNCHANGED jwks

(* the two cache helpers that take an absolute expiry, called on their own
   with an expiry that lies ahead of the clock, on it or behind it *)
ExpiryOffsets == {-700, 0, 329, 330, 331, 3600}

cache_with_expiry_call(p) ==
    /\ CanStart(p)
    /\ \E class \in {"session", "refresh"}, offset \in ExpiryOffsets :
          LET expires_at == now + offset
              c == [op |-> "cache_with_expiry", class |-> class,
                    session_id |-> 1, expires_at |-> expires_at]
          IN /\ store' = IF class = "session"
                         THEN cache_session_with_expiry(store, 1,
                                  [InitSessionPayload EXCEPT !.expires_at = expires_at],
                                  expires_at)
                         ELSE cache_refresh_token(store, 1, <<0>>,
                                                  <<OfflineAccess>>, expires_at)
             /\ Finish(p, c, Ok(0))
    /\ nOps' = nOps + 1
    /\ UNCHANGED <<backend, now, ticks>>
    /\ UNCHANGED authVars
    /\ UNCHANGED idemVars
    /\ UNCHANGED histVars
    /\ UNCHANGED jwks

(* record_rate_limit called on its own. InMemoryCache keeps {"tokens": n};
   RedisCache hands str(tokens) to SETEX as it is, without _encrypt *)
record_rate_limit_call(p) ==
    /\ CanStart(p)
    /\ \E tokens \in {0, 5} :
          LET k == Key("rate", "client")
              ttl_seconds == 60
          IN /\ store' = IF backend = "memory"
                         THEN InMemory_set(store, k, [tokens |-> tokens], ttl_seconds)
                         ELSE SetEntry(store, k, [exp |-> now + ttl_seconds,
                                                  payload |-> [plaintext |-> tokens]])
             /\ Finish(p, [op |-> "record_rate_limit", tokens |-> tokens], Ok(0))
    /\ nOps' = nOps + 1
    /\ UNCHANGED <<backend, now, ticks>>
    /\ UNCHANGED authVars
    /\ UNCHANGED idemVars
    /\ UNCHANGED histVars
    /\ UNCHANGED jwks

(* cache_access_token called on its own with a token the token endpoint
   has just issued: the token carries its time of issue and its lifetime,
   which the cache never looks at *)
cache_access_token_call(p) ==
    /\ CanStart(p)
    /\ \E expires_in \in {20, 30, 330, 3600} :
          LET token == [jti |-> 0, tid |-> Some("tenant-1"),
                        iat |-> now, expires_in |-> expires_in]
          IN /\ store' = cache_access_token(store, 1, token, expires_in)
             /\ Finish(p, [op |-> "cache_access_token", session_id |-> 1,
                           expires_in |-> expires_in], Ok(0))
    /\ nOps' = nOps + 1
    /\ UNCHANGED <<backend, now, ticks>>
    /\ UNCHANGED authVars
    /\ UNCHANGED idemVars
    /\ UNCHANGED histVars
    /\ UNCHANGED jwks

(* Cache.get_access_token called on its own: what TokenService.get_access_token
   returns when it is not None *)
Cache_get_access_token_call(p) ==
    /\ CanStart(p)
    /\ store' = CacheGetStore(store, Key("access", 1))
    /\ Finish(p, [op |-> "Cache.get_access_token", session_id |-> 1],
              Ok(Cache_get_access_token(store, 1)))
    /\ nOps' = nOps + 1
    /\ UNCHANGED <<backend, now, ticks>>
    /\ UNCHANGED authVars
    /\ UNCHANGED idemVars
    /\ UNCHANGED histVars
    /\ UNCHANGED jwks

NextExpiry ==
    \/ \E d \in TickSteps : Tick(d)
    \/ \E p \in Procs : cache_with_expiry_call(p)
    \/ \E p \in Procs : record_rate_limit_call(p)

SpecExpiry == InitIdem /\ [][NextExpiry]_vars

(* the Access-Token Cache Entry written and read while the clock moves by
   a full step or by 25 s, inside the TTL floor *)
NextAccess ==
    \/ \E d \in TickSteps \cup {25} : Tick(d)
    \/ \E p \in Procs : cache_access_token_call(p)
    \/ \E p \in Procs : Cache_get_access_token_call(p)

SpecAccess == InitIdem /\ [][NextAccess]_vars

(* the pure functions, called one after the other *)
NextPure ==
    \/ \E p \in Procs : idempotency_cache_key_call(p)
    \/ \E p \in Procs : normalize_scopes_call(p)
    \/ \E p \in Procs : exchange_request_call(p)
    \/ \E p \in Procs : decode_base64_payload_call(p)
    \/ \E p \in Procs : next_cursor_call(p)

(* the calls of the pure functions that are made: a worker holds one as
   its request *)
PureCalls ==
    { [op |-> "idempotency_cache_key", session |-> session,
       tool_name |-> tool_name, key |-> key] :
          session \in KeySessions, tool_name \in KeyTools, key \in KeyKeys }
    \cup { [op |-> "normalize_scopes", scopes |-> scopes] : scopes \in ScopeLists }
    \cup { [op |-> "exchange_request", stored |-> stored, redirect_uri |-> redirect_uri] :
               stored \in StoredRedirects, redirect_uri \in {"", "cb-b"} }
    \cup { [op |-> "decode_base64_payload", payload |-> payload,
            max_bytes |-> max_bytes] : payload \in Payloads, max_bytes \in 0..3 }
    \cup { [op |-> "next_cursor", next_link |-> next_link] : next_link \in NextLinks }

(* one worker holds a call; for _idempotency_cache_key the other worker
   may hold a second one *)
InitPure ==
    /\ backend \in {"memory", "redis"}
    /\ now = 0
    /\ ticks = 0
    /\ store = EmptyMap
    /\ tstore = [s \in {LegacySid} |-> LegacySession]
    /\ \E c2 \in {Idle} \cup {c \in PureCalls : c.op = "idempotency_cache_key"} :
       \E c1 \in IF c2 = Idle THEN PureCalls
                  ELSE {c \in PureCalls : c.op = "idempotency_cache_key"} :
          /\ call = [p \in Procs |-> IF p = "w1" THEN c1 ELSE c2]
          /\ pc = [p \in Procs |-> IF p = "w1" \/ c2 # Idle THEN "f_call" ELSE "idle"]
    /\ loc = [p \in Procs |-> NoLoc]
    /\ res = NoRes
    /\ asLog = <<>>
    /\ issued = <<>>
    /\ nSess = 0
    /\ nMint = 0
    /\ nOps = 0
    /\ hRuns = 0
    /\ effects = EmptyMap
    /\ loggedOut = {}
    /\ raised = {}
    /\ rejected = {}
    /\ jwks = None

SpecPure == InitPure /\ [][NextPure]_vars

NextIdem ==
    \/ \E d \in {idempotency_ttl_seconds} : Tick(d)
    \/ \E p \in Procs : idempotent(p)
    \/ \E p \in Procs : HandlerReturn(p)
    \/ \E p \in Procs : HandlerRaise(p)

SpecIdem == InitIdem /\ [][NextIdem]_vars

-----------------------------------------------------------------------------
(* mail_send_draft (app.py): a mutating tool call from end to end, in the
   order of the handler: _resolve_session, token_service.get_access_token,
   then _idempotent around mail.send_draft. The session is one that
   complete_pkce created, so resolve ends at the cache; the handler's
   upstream request is HandlerReturn / HandlerRaise. *)

(* session = await _resolve_session(graph_session_id, authorization) *)
mail_send_draft(p) ==
    /\ CanStart(p)
    /\ \E bearer_token \in {"good", "bad"}, idempotency_key \in IdemKeys :
          LET o == resolve_outcome(store, 1, bearer_token)
              c == [op |-> "mail_send_draft", session_id |-> 1,
                    bearer |-> bearer_token,
                    session |-> IF o.kind = "ok"
                                THEN [tenant_id |-> <<o.value.tenant_id>>,
                                      user_id |-> <<o.value.user_id>>]
                                ELSE [tenant_id |-> <<>>, user_id |-> <<>>],
                    tool_name |-> <<"mail_send_draft">>,
                    key |-> idempotency_key]
          IN /\ o.kind # "store"
             /\ store' = resolve_store(store, 1, bearer_token)
             /\ IF o.kind = "ok"
                THEN Goto(p, c, "m_token", NoLoc)
                ELSE Finish(p, c, o)
    /\ nOps' = nOps + 1
    /\ UNCHANGED <<backend, now, ticks>>
    /\ UNCHANGED authVars
    /\ UNCHANGED idemVars
    /\ UNCHANGED histVars
    /\ UNCHANGED jwks

(* token = await token_service.get_access_token(session): the cache read *)
tool_get_access_token(p) ==
    /\ pc[p] = "m_token"
    /\ Runnable(p)
    /\ LET cached == Cache_get_access_token(store, call[p].session_id)
       IN /\ store' = CacheGetStore(store, Key("access", call[p].session_id))
          /\ IF IsSome(cached)
             THEN Goto(p, call[p], "m_idem", [token |-> cached[1]])
             ELSE Goto(p, call[p], "m_rref", NoLoc)
    /\ UNCHANGED <<backend, now, ticks, nOps>>
    /\ UNCHANGED authVars
    /\ UNCHANGED idemVars
    /\ UNCHANGED histVars
    /\ UNCHANGED jwks

(* cache.get_refresh_token, then the refresh request is sent *)
tool_read_refresh(p) ==
    /\ pc[p] = "m_rref"
    /\ Runnable(p)
    /\ LET k == Key("refresh", call[p].session_id)
           stored == CacheGet(store, k)
       IN /\ store' = CacheGetStore(store, k)
          /\ IF ~HasRefreshToken(stored)
             THEN /\ Finish(p, call[p], AuthRequired)
                  /\ asLog' = asLog
             ELSE /\ asLog' = Append(asLog, RefreshRequest(stored[1].refresh_token,
                                                           stored[1].scopes))
                  /\ Goto(p, call[p], "m_await",
                          [refresh_token |-> stored[1].refresh_token])
    /\ UNCHANGED <<backend, now, ticks, tstore, issued, nSess, nMint, nOps>>
    /\ UNCHANGED idemVars
    /\ UNCHANGED histVars
    /\ UNCHANGED jwks

(* the token endpoint answers: AUTH_REQUIRED leaves the tool call, or the
   Refresh-Token Record is rewritten *)
tool_RefreshResponse(p) ==
    /\ pc[p] = "m_await"
    /\ Runnable(p)
    /\ \/ /\ Finish(p, call[p], AuthRequired)
          /\ rejected' = rejected \cup {<<call[p].session_id, loc[p].refresh_token>>}
          /\ UNCHANGED <<store, nMint>>
       \/ \E a \in RefreshAnswers(asLog[Len(asLog)].scope, nMint + 2) :
             LET token_response ==
                     [access_token |-> [jti |-> nMint + 1, tid |-> Some("tenant-1")],
                      refresh_token |->
                          PayloadRefreshToken(a.refresh_token, loc[p].refresh_token),
                      expires_in |-> a.expires_in,
                      scope |-> a.scope]
             IN /\ nMint' = nMint + 2
                /\ rejected' = rejected
                /\ store' = cache_refresh_token(store, call[p].session_id,
                                                token_response.refresh_token,
                                                Split(token_response.scope),
                                                now + token_response.expires_in)
                /\ Goto(p, call[p], "m_wacc", [token_response |-> token_response])
    /\ UNCHANGED <<backend, now, ticks, tstore, asLog, issued, nSess, nOps>>
    /\ UNCHANGED idemVars
    /\ UNCHANGED <<loggedOut, raised, jwks>>

(* cache.cache_access_token; get_access_token returns the new token *)
tool_write_access(p) ==
    /\ pc[p] = "m_wacc"
    /\ Runnable(p)
    /\ LET tr == loc[p].token_response
       IN /\ store' = cache_access_token(store, call[p].session_id,
                                         tr.access_token, tr.expires_in)
          /\ Goto(p, call[p], "m_idem", [token |-> tr.access_token])
    /\ UNCHANGED <<backend, now, ticks, nOps>>
    /\ UNCHANGED authVars
    /\ UNCHANGED idemVars
    /\ UNCHANGED histVars
    /\ UNCHANGED jwks

(* _idempotent(session, "mail_send_draft", idempotency_key, handler), up to
   the point where the handler is awaited or the cached result returned *)
tool_idempotent(p) ==
    /\ pc[p] = "m_idem"
    /\ Runnable(p)
    /\ LET cached == get_idempotency(store, IdemKeyOf(call[p]))
       IN IF call[p].key = <<>>
          THEN /\ store' = store
               /\ hRuns' = hRuns + 1
               /\ Goto(p, call[p], "h_run", [run |-> hRuns + 1])
          ELSE /\ store' = CacheGetStore(store, Key("idempotency", IdemKeyOf(call[p])))
               /\ IF IsSome(cached) /\ "result" \in DOMAIN cached[1]
                  THEN /\ hRuns' = hRuns
                       /\ Finish(p, call[p], [kind |-> "ok", value |-> cached[1].result,
                                              ran |-> FALSE])
                  ELSE /\ hRuns' = hRuns + 1
                       /\ Goto(p, call[p], "h_run", [run |-> hRuns + 1])
    /\ UNCHANGED <<backend, now, ticks, nOps, effects>>
    /\ UNCHANGED authVars
    /\ UNCHANGED histVars
    /\ UNCHANGED jwks

(* session 1 as complete_pkce left it, with its access entry or after the
   access entry was lost *)
InitTool ==
    /\ InitCommon
    /\ store \in { SessionRecords(3600),
                   DelEntry(SessionRecords(3600), Key("access", 1)) }

NextTool ==
    \/ \E d \in TickSteps : Tick(d)
    \/ \E p \in Procs : mail_send_draft(p)
    \/ \E p \in Procs : tool_get_access_token(p)
    \/ \E p \in Procs : tool_read_refresh(p)
    \/ \E p \in Procs : tool_RefreshResponse(p)
    \/ \E p \in Procs : tool_write_access(p)
    \/ \E p \in Procs : tool_idempotent(p)
    \/ \E p \in Procs : HandlerReturn(p)
    \/ \E p \in Procs : HandlerRaise(p)

SpecTool == InitTool /\ [][NextTool]_vars

-----------------------------------------------------------------------------
(* GraphClient.request (graph.py): the upstream mediator for JSON calls.
   Calls of the mediator share no state, so one call at a time is modelled.
   Durations are in milliseconds; loc[p].clock is the time since the call
   began, advanced by the sleeps. *)

max_retry_attempts == 4
retry_base_millis == 500
DefaultRetryAfter == 1

(* what the upstream API may do with one HTTP request: answer with a
   status, perhaps a Retry-After header (seconds) and a body, or not answer
   within http_timeout_seconds *)
GraphAnswers ==
    { [kind |-> "response", status |-> st, retry_after |-> h, body |-> "busy"] :
          st \in {429, 503}, h \in {None, Some(2)} }
    \cup
    { [kind |-> "response", status |-> 500, retry_after |-> None, body |-> "oops"],
      [kind |-> "response", status |-> 404, retry_after |-> None, body |-> "nope"],
      [kind |-> "response", status |-> 200, retry_after |-> None, body |-> "data-1"],
      [kind |-> "response", status |-> 200, retry_after |-> None, body |-> "data-2"],
      [kind |-> "response", status |-> 204, retry_after |-> None, body |-> ""],
      [kind |-> "timeout", status |-> 0, retry_after |-> None, body |-> ""] }

(* response.json() *)
response_json(body) == [json |-> body]
EmptyObject == [json |-> "{}"]

Classify_retry_all(status_code) ==
    IF status_code \in {429, 503} THEN "retry_after"
    ELSE IF status_code >= 400 THEN "backoff"
    ELSE IF status_code = 204 THEN "empty"
    ELSE "json"

(* the if-chain of the loop body, in its order *)
Classify(status_code) ==
    IF status_code \in {429, 503} THEN "retry_after"
    ELSE IF status_code >= 500 THEN "backoff"
    ELSE IF status_code >= 400 THEN "raise"
    ELSE IF status_code = 204 THEN "empty"
    ELSE "json"

retry_after_default(header) == DefaultRetryAfter

(* int(response.headers.get("Retry-After", "1")) *)
retry_after(header) == IF IsSome(header) THEN header[1] ELSE DefaultRetryAfter

RECURSIVE Pow2(_)
Pow2(n) == IF n = 0 THEN 1 ELSE 2 * Pow2(n - 1)

(* _backoff: base + random.uniform(0, base); the two ends of the range *)
backoff_base(attempt) == retry_base_millis * Pow2(attempt)
Jitters(attempt) == {0, backoff_base(attempt)}

HasAttemptLeft_one_less(attempt) == attempt + 2 < max_retry_attempts
HasAttemptLeft_one_more(attempt) == attempt < max_retry_attempts

(* for attempt in range(settings.max_retry_attempts): is there a next one *)
HasAttemptLeft(attempt) == attempt + 1 < max_retry_attempts

GraphPcs == {"q_wait", "q_sleep"}

(* what the call has seen so far, handed on with its outcome *)
Seen(l) == [sent |-> l.sent, trace |-> l.trace, sends |-> l.sends, clock |-> l.clock]

(* the call: headers are built and the first HTTP request is sent *)
request(p) ==
    /\ CanStart(p)
    /\ \A q \in Procs : pc[q] = "idle"
    /\ Goto(p, [op |-> "request"], "q_wait",
            [attempt |-> 0, sent |-> 1, trace |-> <<>>, sends |-> <<0>>,
             clock |-> 0, delay |-> 0])
    /\ nOps' = nOps + 1
    /\ UNCHANGED <<backend, now, ticks, store>>
    /\ UNCHANGED authVars
    /\ UNCHANGED idemVars
    /\ UNCHANGED histVars
    /\ UNCHANGED jwks

(* the HTTP request ends: a response, or httpx raises its timeout, which
   request does not catch *)
GraphResponse(p) ==
    /\ pc[p] = "q_wait"
    /\ \E a \in GraphAnswers, jitter \in Jitters(loc[p].attempt) :
          LET l == [loc[p] EXCEPT !.trace = Append(@, a)]
              class == Classify(a.status)
          IN IF a.kind = "timeout"
             THEN Finish(p, call[p], [kind |-> "err", code |-> "httpx.TimeoutException",
                                      status |-> 500, seen |-> Seen(l)])
             ELSE IF class = "retry_after"
             THEN Goto(p, call[p], "q_sleep",
                       [l EXCEPT !.delay = 1000 * retry_after(a.retry_after)])
             ELSE IF class = "backoff"
             THEN Goto(p, call[p], "q_sleep",
                       [l EXCEPT !.delay = backoff_base(loc[p].attempt) + jitter])
             ELSE IF class = "raise"
             THEN Finish(p, call[p], [kind |-> "err", code |-> "UPSTREAM_ERROR",
                                      status |-> 502, seen |-> Seen(l)])
             ELSE IF class = "empty"
             THEN Finish(p, call[p], [kind |-> "ok", value |-> EmptyObject,
                                      seen |-> Seen(l)])
             ELSE Finish(p, call[p], [kind |-> "ok", value |-> response_json(a.body),
                                      seen |-> Seen(l)])
    /\ UNCHANGED <<backend, now, ticks, store, nOps>>
    /\ UNCHANGED authVars
    /\ UNCHANGED idemVars
    /\ UNCHANGED histVars
    /\ UNCHANGED jwks

(* asyncio.sleep returns; `continue`: the next attempt is sent, or the loop
   is over and UPSTREAM_ERROR is raised *)
GraphWake(p) ==
    /\ pc[p] = "q_sleep"
    /\ LET clock == loc[p].clock + loc[p].delay
       IN IF HasAttemptLeft(loc[p].attempt)
          THEN Goto(p, call[p], "q_wait",
                    [loc[p] EXCEPT !.attempt = @ + 1, !.sent = @ + 1,
                                   !.sends = Append(@, clock),
                                   !.clock = clock, !.delay = 0])
          ELSE Finish(p, call[p],
                      [kind |-> "err", code |-> "UPSTREAM_ERROR", status |-> 502,
                       seen |-> Seen([loc[p] EXCEPT !.clock = clock])])
    /\ UNCHANGED <<backend, now, ticks, store, nOps>>
    /\ UNCHANGED authVars
    /\ UNCHANGED idemVars
    /\ UNCHANGED histVars
    /\ UNCHANGED jwks

InitGraph == InitCommon /\ store = EmptyMap

NextGraph ==
    \/ \E p \in Procs : request(p)
    \/ \E p \in Procs : GraphResponse(p)
    \/ \E p \in Procs : GraphWake(p)

SpecGraph == InitGraph /\ [][NextGraph]_vars

(* GraphClient.request_raw (graph.py): the mediator for byte downloads.
   The call: headers are built and the one HTTP request is sent *)
request_raw(p) ==
    /\ CanStart(p)
    /\ \A q \in Procs : pc[q] = "idle"
    /\ Goto(p, [op |-> "request_raw"], "w_wait",
            [attempt |-> 0, sent |-> 1, trace |-> <<>>, sends |-> <<0>>,
             clock |-> 0, delay |-> 0])
    /\ nOps' = nOps + 1
    /\ UNCHANGED <<backend, now, ticks, store>>
    /\ UNCHANGED authVars
    /\ UNCHANGED idemVars
    /\ UNCHANGED histVars
    /\ UNCHANGED jwks

(* the HTTP request ends: status >= 400 raises UPSTREAM_ERROR, anything
   else returns response.content; there is no loop around the request *)
RawResponse(p) ==
    /\ pc[p] = "w_wait"
    /\ \E a \in GraphAnswers :
          LET l == [loc[p] EXCEPT !.trace = Append(@, a)]
          IN IF a.kind = "timeout"
             THEN Finish(p, call[p], [kind |-> "err", code |-> "httpx.TimeoutException",
                                      status |-> 500, seen |-> Seen(l)])
             ELSE IF a.status >= 400
             THEN Finish(p, call[p], [kind |-> "err", code |-> "UPSTREAM_ERROR",
                                      status |-> 502, seen |-> Seen(l)])
             ELSE Finish(p, call[p], [kind |-> "ok", value |-> a.body,
                                      seen |-> Seen(l)])
    /\ UNCHANGED <<backend, now, ticks, store, nOps>>
    /\ UNCHANGED authVars
    /\ UNCHANGED idemVars
    /\ UNCHANGED histVars
    /\ UNCHANGED jwks

(* the two operations of the mediator side by side *)
NextRaw ==
    \/ NextGraph
    \/ \E p \in Procs : request_raw(p)
    \/ \E p \in Procs : RawResponse(p)

SpecRaw == InitGraph /\ [][NextRaw]_vars

(* every HTTP request ends within http_timeout_seconds and every sleep
   returns *)
SpecGraphFair ==
    /\ SpecGraph
    /\ WF_vars(\E p \in Procs : GraphResponse(p))
    /\ WF_vars(\E p \in Procs : GraphWake(p))

-----------------------------------------------------------------------------
(* OIDCValidator (auth.py): the JWKS is loaded on first use and kept in
   self._jwks. A bearer is a JWT with a kid in its header (none: "") whose
   signature and claims verify under the key of that kid or do not. *)

(* validate from the lookup of the kid to its end, with the JWKS `keys` *)
ValidateWith(keys, token) ==
    IF token.kid = "" THEN AuthRequired
    ELSE IF token.kid \notin keys THEN AuthRequired
    ELSE IF token.verifies THEN Ok([sub |-> "client", kid |-> token.kid])
    ELSE AuthRequired

(* the call: _load_jwks returns the cached JWKS or GETs oidc_jwks_url *)
OIDCValidator_validate(p) ==
    /\ CanStart(p)
    /\ \E kid \in {"", "k1", "k2"}, verifies \in BOOLEAN :
          LET token == [kid |-> kid, verifies |-> verifies]
              c == [op |-> "validate", token |-> token]
          IN IF IsSome(jwks)
             THEN Finish(p, c, ValidateWith(jwks[1], token))
             ELSE Goto(p, c, "v_jwks", NoLoc)
    /\ nOps' = nOps + 1
    /\ UNCHANGED <<backend, now, ticks, store, jwks>>
    /\ UNCHANGED authVars
    /\ UNCHANGED idemVars
    /\ UNCHANGED histVars

(* the JWKS endpoint answers: an error, or the keys it publishes now (the
   provider has rotated in k2 or not yet) *)
JwksResponse(p) ==
    /\ pc[p] = "v_jwks"
    /\ \/ /\ Finish(p, call[p], AuthRequired)
          /\ jwks' = jwks
       \/ \E keys \in {{"k1"}, {"k1", "k2"}} :
             /\ jwks' = Some(keys)
             /\ Finish(p, call[p], ValidateWith(keys, call[p].token))
    /\ UNCHANGED <<backend, now, ticks, store, nOps>>
    /\ UNCHANGED authVars
    /\ UNCHANGED idemVars
    /\ UNCHANGED histVars

NextOidc ==
    \/ \E p \in Procs : OIDCValidator_validate(p)
    \/ \E p \in Procs : JwksResponse(p)

SpecOidc == InitIdem /\ [][NextOidc]_vars

-----------------------------------------------------------------------------

Next ==
    \/ \E d \in TickSteps : Tick(d)
    \/ \E p \in Procs : begin_pkce(p)
    \/ \E p \in Procs : complete_pkce(p)
    \/ \E p \in Procs : Redis_pop_pkce_delete(p)
    \/ \E p \in Procs : ExchangeResponse(p)
    \/ \E p \in Procs : MeResponse(p)
    \/ \E p \in Procs : complete_write_session(p)
    \/ \E p \in Procs : complete_write_access(p)
    \/ \E p \in Procs : resolve(p)
    \/ \E p \in Procs : resolve_cache_session(p)

Spec == Init /\ [][Next]_vars

-----------------------------------------------------------------------------
(* Vocabulary of the properties *)

(* the PKCE transaction begin_pkce stored under state s *)
Stored(s) ==
    [verifier |-> issued[s].verifier,
     scopes |-> normalize_scopes(issued[s].scopes),
     redirect_uri |-> Or(issued[s].redirect_uri, graph_redirect_uri)]

(* the authorization_code requests sent with the verifier of state s *)
ExchangesFor(s) ==
    {i \in 1..Len(asLog) :
        /\ asLog[i].grant_type = "authorization_code"
        /\ asLog[i].code_verifier = issued[s].verifier}

(* some pop_pkce(s) has returned the transaction *)
Consumed(s) == ExchangesFor(s) # {}

Unexpired(s) == now < issued[s].at + PkceTtl

(* worker p starts a handler in this step; the call it starts *)
Starts(p) ==
    /\ nOps' = nOps + 1
    /\ pc[p] = "idle"
    /\ (pc'[p] # "idle" \/ res'.by = p)

StartedCall(p) == IF pc'[p] # "idle" THEN call'[p] ELSE res'.call

StartsComplete(p) == Starts(p) /\ StartedCall(p).op = "complete_pkce"

(* the live content of the cache under the given prefixes *)
View(st, prefixes) ==
    [k \in {x \in DOMAIN st : x[1] \in prefixes /\ Live(st, x)} |-> st[k].payload]

-----------------------------------------------------------------------------
(* C1: for a session, a tool and a non-empty key, a call of _idempotent
   whose handler returns leaves an entry that holds the returned result for
   idempotency_ttl_seconds; a call that starts while the entry is live
   returns the result of the entry at once without running the handler,
   causing no effect and writing nothing; so a call made right after a
   successful call with the same tuple returns the same result, and the
   handler has run once for the two. *)
C1_SuccessiveCallsOneRun ==
    [][\A p \in Procs :
         /\ (pc[p] = "h_run" /\ pc'[p] = "idle" /\ res'.out.kind = "ok"
               /\ call[p].key # <<>>) =>
              LET k == Key("idempotency", IdemKeyOf(call[p]))
              IN /\ Live(store', k)
                 /\ store'[k].exp = now + idempotency_ttl_seconds
                 /\ CacheGet(store', k)[1].result = res'.out.value
         /\ (Starts(p) /\ StartedCall(p).op = "idempotent"
               /\ StartedCall(p).key # <<>>
               /\ Live(store, Key("idempotency", IdemKeyOf(StartedCall(p))))) =>
              LET k == Key("idempotency", IdemKeyOf(StartedCall(p)))
              IN /\ pc'[p] = "idle"
                 /\ res'.out.kind = "ok"
                 /\ res'.out.value = CacheGet(store, k)[1].result
                 /\ hRuns' = hRuns
                 /\ effects' = effects
                 /\ store' = store
         /\ (Starts(p) /\ StartedCall(p).op = "idempotent"
               /\ StartedCall(p).key # <<>>
               /\ res.out.kind = "ok" /\ res.call = StartedCall(p)) =>
              /\ pc'[p] = "idle"
              /\ res'.out.kind = "ok"
              /\ res'.out.value = res.out.value
              /\ hRuns' = hRuns
              /\ effects' = effects
      ]_vars

(* a second call has returned the cached result of the first: one handler
   run and one effect for the two calls *)
C1_Witness ==
    /\ res.call.op = "idempotent"
    /\ res.out.kind = "ok"
    /\ ~res.out.ran
    /\ hRuns = 1
    /\ effects[IdemTuple(res.call)] = 1
    /\ res.out.value = [id |-> 1]

-----------------------------------------------------------------------------
(* C2: whatever the interleaving of the _idempotent calls that carry one
   (tenant_id, user_id, tool_name, key) with a non-empty key, while no
   entry has had the time to expire the effect of the handler is visible
   upstream at most once for that tuple. *)
C2_EffectAtMostOnce ==
    ticks = 0 =>
        \A t \in DOMAIN effects : t[4] # <<>> => effects[t] <= 1

-----------------------------------------------------------------------------
(* C3: after begin_pkce has stored a transaction under state s, the first
   pop_pkce(s), made while the transaction is stored (within its TTL),
   returns its verifier, scopes and redirect_uri; every pop_pkce(s) that
   starts after a pop_pkce(s) has returned the transaction returns None
   (complete_pkce then raises AUTH_REQUIRED at once). Both back-ends. *)
C3_PopPkceOnce ==
    [][\A p \in Procs :
         /\ StartsComplete(p) =>
              LET s == StartedCall(p).state
              IN /\ (s <= Len(issued) /\ ~Consumed(s) /\ Unexpired(s)) =>
                       \/ pc'[p] = "c_exch" /\ loc'[p].pkce = Stored(s)
                       \/ /\ pc'[p] = "c_del"
                          /\ PopPkceResult(loc'[p].payload) = Some(Stored(s))
                 /\ (s <= Len(issued) /\ Consumed(s)) =>
                       pc'[p] = "idle" /\ res'.out = AuthRequired
         /\ (pc[p] = "c_del" /\ pc'[p] # "c_del") =>
              pc'[p] = "c_exch" /\ loc'[p].pkce = Stored(call[p].state)
      ]_vars

(* a second pop of a consumed, unexpired state has just returned None *)
C3_Witness ==
    /\ res.call.op = "complete_pkce"
    /\ res.out = AuthRequired
    /\ res.call.state <= Len(issued)
    /\ Consumed(res.call.state)
    /\ Unexpired(res.call.state)

-----------------------------------------------------------------------------
(* C4 as claimed: for every state, at most one complete_pkce obtains the
   verifier and goes on to the token exchange. *)
C4_AtMostOneExchange ==
    \A s \in 1..Len(issued) : Cardinality(ExchangesFor(s)) <= 1

(* C4 as amended: a second complete_pkce obtains the verifier of a state only
   on the remote back-end, and only when it had read the record (GET) before
   the other call deleted it; on the in-memory back-end at most one does. *)
C4_SecondExchangeOnlyByRace ==
    [][\A s \in 1..Len(issued) :
         (Consumed(s) /\ Cardinality(ExchangesFor(s))' > Cardinality(ExchangesFor(s))) =>
            /\ backend = "redis"
            /\ \E p \in Procs :
                  pc[p] = "c_del" /\ call[p].state = s /\ pc'[p] = "c_exch"
      ]_vars

(* the in-memory back-end has refused the second complete_pkce of a state *)
C4_Witness ==
    /\ backend = "memory"
    /\ res.call.op = "complete_pkce"
    /\ res.out = AuthRequired
    /\ res.call.state <= Len(issued)
    /\ Consumed(res.call.state)

-----------------------------------------------------------------------------
(* C5: when complete_pkce returns graph_session_id sid, the cache holds under
   sid a live Session Record with the user_id of /me and the tenant_id of the
   token's tid claim ("unknown" without one), a live Refresh-Token Record with
   the refresh token of the AS and a live access entry with its access
   token, and resolve(sid, valid bearer) succeeds. *)
C5_CompleteStoresSession ==
    (res.call.op = "complete_pkce" /\ res.out.kind = "ok") =>
        LET sid == res.out.value.graph_session_id
            tr == res.out.seen.token_response
            tid == tr.access_token.tid
            session == CacheGet(store, Key("session", sid))
            refresh == CacheGet(store, Key("refresh", sid))
            access == CacheGet(store, Key("access", sid))
        IN /\ IsSome(session)
           /\ session[1].user_id = res.out.seen.user_id
           /\ session[1].tenant_id = (IF IsSome(tid) THEN tid[1] ELSE "unknown")
           /\ IsSome(refresh)
           /\ refresh[1].refresh_token = tr.refresh_token
           /\ IsSome(access)
           /\ access[1].token = tr.access_token
           /\ resolve_outcome(store, sid, "good").kind = "ok"
           /\ resolve_outcome(store, sid, "good").value.session_id = sid

(* complete_pkce has just returned a session whose token lives 20 seconds *)
C5_Witness ==
    /\ res.call.op = "complete_pkce"
    /\ res.out.kind = "ok"
    /\ res.out.value.expires_in < TtlFloor

-----------------------------------------------------------------------------
(* C6: complete_pkce with a state that was never issued, is already consumed
   or is older than the 600 s TTL raises AUTH_REQUIRED (401) in its first
   step, sends nothing to the token endpoint and leaves the session, refresh
   and access records as they were. *)
C6_BadStateAuthRequired ==
    [][\A p \in Procs :
         StartsComplete(p) =>
            LET s == StartedCall(p).state
            IN (s > Len(issued) \/ Consumed(s) \/ ~Unexpired(s)) =>
                  /\ pc'[p] = "idle"
                  /\ res'.out = MCPError("AUTH_REQUIRED", 401)
                  /\ asLog' = asLog
                  /\ nMint' = nMint
                  /\ View(store', {"session", "refresh", "access"})
                        = View(store, {"session", "refresh", "access"})
      ]_vars

(* a complete_pkce on an expired, never consumed state was refused *)
C6_Witness ==
    /\ res.call.op = "complete_pkce"
    /\ res.out = AuthRequired
    /\ res.call.state <= Len(issued)
    /\ ~Consumed(res.call.state)
    /\ ~Unexpired(res.call.state)

-----------------------------------------------------------------------------
(* C7: a complete_pkce(code, s, _) made while the transaction of s is stored
   goes on to the token exchange, and the request it sends carries the code,
   exactly the verifier begin_pkce generated for s and, space-joined, the
   normalised scopes begin_pkce stored. *)
C7_ExchangeCarriesIssued ==
    [][\A p \in Procs :
         /\ (StartsComplete(p) /\ StartedCall(p).state <= Len(issued)
               /\ ~Consumed(StartedCall(p).state) /\ Unexpired(StartedCall(p).state))
              => pc'[p] \in {"c_exch", "c_del"}
         /\ (pc[p] # "c_exch" /\ pc'[p] = "c_exch") =>
              LET s == call'[p].state
                  r == asLog'[Len(asLog')]
              IN /\ Len(asLog') = Len(asLog) + 1
                 /\ r.grant_type = "authorization_code"
                 /\ r.code = call'[p].code
                 /\ r.code_verifier = issued[s].verifier
                 /\ r.scope = Join(normalize_scopes(issued[s].scopes))
      ]_vars

(* an exchange is in flight for a state whose scopes needed normalising *)
C7_Witness ==
    \E p \in Procs :
        /\ pc[p] = "c_exch"
        /\ issued[call[p].state].scopes = << <<" ", "m">>, <<"m">>, <<" ">> >>
        /\ asLog[Len(asLog)].scope = <<"m", " ", "o">>

-----------------------------------------------------------------------------
(* C8: a get_access_token that misses the access cache and reads a
   Refresh-Token Record with a non-empty refresh token posts that token to
   the token endpoint; when the endpoint answers, refresh:<sid> is written
   with the refresh token of the answer (the one the call had read if the
   answer carries none); the call then writes access:<sid> with the access
   token of the answer and returns that token. With the in-memory back-end
   both records are as written when the call returns. *)
C8_RefreshRotates ==
    [][\A p \in Procs :
         LET sid == call[p].session_id
             refresh == CacheGet(store', Key("refresh", sid))
             access == CacheGet(store', Key("access", sid))
         IN /\ (pc[p] = "g_rref" /\ pc'[p] = "g_await") =>
                 /\ Len(asLog') = Len(asLog) + 1
                 /\ asLog'[Len(asLog')].grant_type = "refresh_token"
                 /\ asLog'[Len(asLog')].refresh_token
                       = CacheGet(store, Key("refresh", sid))[1].refresh_token
            /\ (pc[p] = "g_await" /\ pc'[p] = "g_wacc") =>
                 LET a == loc'[p].answer
                 IN /\ IsSome(refresh)
                    /\ refresh[1].refresh_token =
                          (IF IsSome(a.refresh_token) THEN a.refresh_token[1]
                           ELSE loc[p].refresh_token)
            /\ (pc[p] = "g_wacc" /\ pc'[p] = "idle") =>
                 LET a == loc[p].answer
                 IN /\ res'.out.kind = "ok"
                    /\ res'.out.value = a.access_token
                    /\ IsSome(access)
                    /\ access[1].token = res'.out.value
                    /\ backend = "memory" =>
                          /\ IsSome(refresh)
                          /\ refresh[1].refresh_token =
                                (IF IsSome(a.refresh_token) THEN a.refresh_token[1]
                                 ELSE loc[p].refresh_token)
      ]_vars

(* a refresh whose answer carried no refresh token has just returned *)
C8_Witness ==
    /\ res.call.op = "get_access_token"
    /\ res.out.kind = "ok"
    /\ res.out.refreshed
    /\ ~IsSome(res.out.seen.answer.refresh_token)
    /\ CacheGet(store, Key("refresh", res.call.session_id))[1].refresh_token = <<0>>

-----------------------------------------------------------------------------
(* C9: a get_access_token that finds a live access entry for the session
   returns the cached token at once, sends nothing to the Authorization
   Server and leaves the whole cache, the Refresh-Token Record, the Session
   Record and the access entry included, as it was. *)
C9_CachedTokenNoEffect ==
    [][\A p \in Procs :
         (Starts(p) /\ StartedCall(p).op = "get_access_token"
            /\ Live(store, Key("access", StartedCall(p).session_id))) =>
               /\ pc'[p] = "idle"
               /\ res'.out.kind = "ok"
               /\ Some(res'.out.value)
                     = Cache_get_access_token(store, StartedCall(p).session_id)
               /\ asLog' = asLog
               /\ nMint' = nMint
               /\ store' = store
      ]_vars

(* a cached token was returned while a Refresh-Token Record exists *)
C9_Witness ==
    /\ res.call.op = "get_access_token"
    /\ res.out.kind = "ok"
    /\ ~res.out.refreshed
    /\ Live(store, Key("refresh", res.call.session_id))

-----------------------------------------------------------------------------
(* C10: a get_access_token that misses the access cache sends nothing with
   that read; when it then finds the Refresh-Token Record missing or with an
   empty refresh_token it raises AUTH_REQUIRED (401), sends nothing to the
   Authorization Server and leaves the live content of the cache as it was. *)
C10_NoRefreshAuthRequired ==
    [][\A p \in Procs :
         /\ (Starts(p) /\ StartedCall(p).op = "get_access_token"
               /\ ~Live(store, Key("access", StartedCall(p).session_id))) =>
              /\ pc'[p] = "g_rref"
              /\ asLog' = asLog
              /\ View(store', {"session", "refresh", "access"})
                    = View(store, {"session", "refresh", "access"})
         /\ (pc[p] = "g_rref" /\ pc'[p] # "g_rref"
               /\ LET k == Key("refresh", call[p].session_id)
                  IN ~Live(store, k) \/ CacheGet(store, k)[1].refresh_token = <<>>) =>
              /\ pc'[p] = "idle"
              /\ res'.out = MCPError("AUTH_REQUIRED", 401)
              /\ asLog' = asLog
              /\ nMint' = nMint
              /\ View(store', {"session", "refresh", "access"})
                    = View(store, {"session", "refresh", "access"})
      ]_vars

(* the call was refused on a record whose refresh_token is empty *)
C10_Witness ==
    /\ res.call.op = "get_access_token"
    /\ res.out = AuthRequired
    /\ Live(store, Key("refresh", res.call.session_id))
    /\ CacheGet(store, Key("refresh", res.call.session_id))[1].refresh_token = <<>>
    /\ ~Live(store, Key("access", res.call.session_id))

-----------------------------------------------------------------------------
(* C11, as claimed: of the get_access_token calls for one session that are
   running at the same time and have all missed the access cache, at most
   one has a refresh_token request with the Authorization Server. *)
C11_AtMostOneRefresh ==
    \A p \in Procs, q \in Procs :
        (/\ p # q
         /\ pc[p] \in {"g_await", "g_wacc"}
         /\ pc[q] \in {"g_await", "g_wacc"}) =>
            call[p].session_id # call[q].session_id

(* C11, amended: refreshes are not collapsed. Every get_access_token call
   that has missed the access cache and reads a Refresh-Token Record with a
   non-empty refresh token sends its own refresh_token request, whether or
   not another call for the session has one under way; a call sends one
   request and no more, and nothing else sends any. *)
C11_OneRefreshPerCall ==
    [][/\ \A p \in Procs :
            /\ (pc[p] = "g_rref" /\ pc'[p] # "g_rref"
                  /\ HasRefreshToken(CacheGet(store, Key("refresh", call[p].session_id)))) =>
                 LET stored == CacheGet(store, Key("refresh", call[p].session_id))[1]
                 IN /\ pc'[p] = "g_await"
                    /\ asLog' = Append(asLog,
                          [grant_type |-> "refresh_token",
                           refresh_token |-> stored.refresh_token,
                           scope |-> Join(normalize_scopes(stored.scopes))])
            /\ (pc[p] # "g_rref" /\ pc'[p] = "g_rref") => pc[p] = "idle"
            /\ (pc[p] # "g_await" /\ pc'[p] = "g_await") => pc[p] = "g_rref"
       /\ asLog' # asLog =>
            /\ Len(asLog') = Len(asLog) + 1
            /\ \E p \in Procs : pc[p] = "g_rref" /\ pc'[p] = "g_await"
      ]_vars

(* two calls for one session both have a refresh request under way *)
C11_Witness ==
    /\ pc["w1"] = "g_await"
    /\ pc["w2"] = "g_await"
    /\ call["w1"].session_id = call["w2"].session_id
    /\ Len(asLog) = 2

-----------------------------------------------------------------------------
(* C12: resolve raises AUTH_REQUIRED (401) at once when the session id is
   empty, when the bearer is empty and when the bearer is not one the OIDC
   validator accepts; it then returns no Session Record and the cache is
   exactly as it was: the lookup, which in the in-memory back-end would
   drop an expired record, has not been reached. *)
C12_ResolveRejectsBeforeCache ==
    [][\A p \in Procs :
         (/\ Starts(p)
          /\ StartedCall(p).op = "resolve"
          /\ \/ StartedCall(p).session_id = NoSid
             \/ StartedCall(p).bearer = ""
             \/ StartedCall(p).bearer = "bad") =>
               /\ pc'[p] = "idle"
               /\ res'.out = MCPError("AUTH_REQUIRED", 401)
               /\ store' = store
      ]_vars

(* a rejected bearer was refused for a session whose record is in the in-memory
   store, expired and not yet dropped *)
C12_Witness ==
    /\ res.call.op = "resolve"
    /\ res.call.bearer = "bad"
    /\ res.out = AuthRequired
    /\ Key("session", res.call.session_id) \in DOMAIN store
    /\ ~Live(store, Key("session", res.call.session_id))

-----------------------------------------------------------------------------
(* C13: resolve with a session id and a valid bearer raises AUTH_REQUIRED
   (401) whenever the cache holds no live Session Record for the session
   id, and otherwise returns the cached record with session_id injected. *)
C13_NoCachedSessionAuthRequired ==
    [][\A p \in Procs :
         (/\ Starts(p)
          /\ StartedCall(p).op = "resolve"
          /\ StartedCall(p).session_id # NoSid
          /\ StartedCall(p).bearer = "good") =>
               LET k == Key("session", StartedCall(p).session_id)
               IN /\ pc'[p] = "idle"
                  /\ res'.out = IF Live(store, k)
                                THEN Ok(Inject(CacheGet(store, k)[1],
                                               StartedCall(p).session_id))
                                ELSE MCPError("AUTH_REQUIRED", 401)
      ]_vars

-----------------------------------------------------------------------------
(* C14: when the cache has no Session Record for the session id and the
   token store has one, resolve goes on to the token store, returns its
   record with session_id injected and has written that record to the
   session cache under the session id. *)
C14_TokenStoreRecordCached ==
    [][\A p \in Procs :
         /\ (/\ Starts(p)
             /\ StartedCall(p).op = "resolve"
             /\ StartedCall(p).session_id # NoSid
             /\ StartedCall(p).bearer = "good"
             /\ ~Live(store, Key("session", StartedCall(p).session_id))
             /\ StartedCall(p).session_id \in DOMAIN tstore) =>
                  pc'[p] = "r_cache"
         /\ (pc[p] = "r_cache" /\ pc'[p] = "idle" /\ call[p].op = "resolve") =>
              LET sid == call[p].session_id
                  k == Key("session", sid)
              IN /\ res'.out = Ok(Inject(tstore[sid], sid))
                 /\ Live(store', k)
                 /\ CacheGet(store', k) = Some(Inject(tstore[sid], sid))
      ]_vars

-----------------------------------------------------------------------------
(* C15: when auth_logout(sid) returns, the Session Record and the
   Refresh-Token Record of sid are absent; no step of auth_logout touches
   the Access-Token Cache Entry of sid; and every resolve(sid, bearer) that
   starts after the return raises AUTH_REQUIRED (no later session gets the
   same id). *)
C15_LogoutEndsSession ==
    [][\A p \in Procs :
         /\ (call[p].op = "auth_logout" /\ pc[p] # pc'[p]) =>
              LET a == Key("access", call[p].session_id)
              IN /\ (a \in DOMAIN store') = (a \in DOMAIN store)
                 /\ a \in DOMAIN store => store'[a] = store[a]
         /\ (pc[p] = "l_dref" /\ pc'[p] = "idle") =>
              /\ res'.out = Ok([status |-> "logged_out"])
              /\ Key("session", call[p].session_id) \notin DOMAIN store'
              /\ Key("refresh", call[p].session_id) \notin DOMAIN store'
         /\ (/\ Starts(p)
             /\ StartedCall(p).op = "resolve"
             /\ StartedCall(p).session_id \in loggedOut) =>
                  /\ pc'[p] = "idle"
                  /\ res'.out = MCPError("AUTH_REQUIRED", 401)
      ]_vars

-----------------------------------------------------------------------------
(* Vocabulary of the claims about GraphClient.request *)

Retryable(a) == a.kind = "response" /\ (a.status \in {429, 503} \/ a.status >= 500)
Success(a) == a.kind = "response" /\ a.status < 400
BodyOf(a) == IF a.status = 204 THEN EmptyObject ELSE response_json(a.body)
AllRetryable(t) == \A i \in 1..Len(t) : Retryable(t[i])
Statuses(t) == [i \in 1..Len(t) |-> t[i].status]
RequestEnded == res.call.op = "request"

-----------------------------------------------------------------------------
(* C16: a call of request never goes on after a response below 400: while
   it is in flight every response so far was 429, 503 or >= 500. A call
   that ends on a response below 400 after retryable ones has made at most
   max_retry_attempts attempts and returns that response's body, an empty
   object for 204. A call that ends with only retryable responses has made
   max_retry_attempts attempts and raises UPSTREAM_ERROR with status 502. *)
C16_FirstSuccessReturned ==
    /\ \A p \in Procs :
          pc[p] \in GraphPcs => AllRetryable(loc[p].trace)
    /\ RequestEnded =>
          LET t == res.out.seen.trace
              n == Len(t)
          IN /\ (Success(t[n]) /\ AllRetryable(SubSeq(t, 1, n - 1))) =>
                   /\ n <= max_retry_attempts
                   /\ res.out.seen.sent = n
                   /\ res.out.kind = "ok"
                   /\ res.out.value = BodyOf(t[n])
             /\ AllRetryable(t) =>
                   /\ n = max_retry_attempts
                   /\ res.out.kind = "err"
                   /\ res.out.code = "UPSTREAM_ERROR"
                   /\ res.out.status = 502

(* [503, 503, 200]: the 200 body is returned on the third attempt *)
C16_Witness ==
    /\ RequestEnded
    /\ Statuses(res.out.seen.trace) = <<503, 503, 200>>
    /\ res.out.seen.sent = 3
    /\ res.out.kind = "ok"
    /\ res.out.value = response_json("data-1")

-----------------------------------------------------------------------------
(* C17: a call of request never sends more than max_retry_attempts HTTP
   requests, every call in flight ends, and a call all of whose requests
   were answered with retryable responses ends with UPSTREAM_ERROR, status
   502, after max_retry_attempts requests. *)
C17_TerminatesWithinBudget ==
    /\ [](\A p \in Procs :
            pc[p] \in GraphPcs => loc[p].sent <= max_retry_attempts)
    /\ [](RequestEnded =>
            /\ res.out.seen.sent <= max_retry_attempts
            /\ res.out.seen.sent = Len(res.out.seen.trace)
            /\ AllRetryable(res.out.seen.trace) =>
                  /\ res.out.code = "UPSTREAM_ERROR"
                  /\ res.out.status = 502)
    /\ \A p \in Procs : (pc[p] \in GraphPcs) ~> (pc[p] = "idle")

(* the budget is used up by four retryable responses *)
C17_Witness ==
    /\ RequestEnded
    /\ res.out.seen.sent = max_retry_attempts
    /\ AllRetryable(res.out.seen.trace)
    /\ res.out.kind = "err"
    /\ res.out.code = "UPSTREAM_ERROR"

-----------------------------------------------------------------------------
(* C18: a response with a status >= 400 that is neither 429 nor >= 500 ends
   the call in the step that receives it, with UPSTREAM_ERROR and status
   502: the call does not go to sleep on it, and it has sent no request and
   slept no time beyond what it had when the response came. *)
ClientError(a) ==
    a.kind = "response" /\ a.status >= 400 /\ a.status # 429 /\ ~(a.status >= 500)

Last(t) == t[Len(t)]

C18_ClientErrorRaisesAtOnce ==
    [][\A p \in Procs :
         /\ (pc[p] = "q_wait" /\ pc'[p] # "idle") =>
               /\ pc'[p] = "q_sleep"
               /\ ~ClientError(Last(loc'[p].trace))
         /\ (pc[p] = "q_wait" /\ pc'[p] = "idle"
                /\ ClientError(Last(res'.out.seen.trace))) =>
               /\ res'.out.kind = "err"
               /\ res'.out.code = "UPSTREAM_ERROR"
               /\ res'.out.status = 502
               /\ res'.out.seen.sent = loc[p].sent
               /\ res'.out.seen.sends = loc[p].sends
               /\ res'.out.seen.clock = loc[p].clock
      ]_vars

(* a 404 on the second attempt *)
C18_Witness ==
    /\ RequestEnded
    /\ Len(res.out.seen.trace) = 2
    /\ Last(res.out.seen.trace).status = 404
    /\ res.out.seen.sent = 2
    /\ res.out.kind = "err"
    /\ res.out.code = "UPSTREAM_ERROR"

-----------------------------------------------------------------------------
(* C19: a request that times out is retried like a retryable response: a
   call ends on a timeout only when max_retry_attempts requests have been
   sent, and a call that ends with an error ends with UPSTREAM_ERROR,
   status 502, never with the transport's own error. *)
C19_TimeoutIsRetried ==
    RequestEnded =>
        /\ Last(res.out.seen.trace).kind = "timeout" =>
              res.out.seen.sent = max_retry_attempts
        /\ res.out.kind = "err" =>
              /\ res.out.code = "UPSTREAM_ERROR"
              /\ res.out.status = 502

-----------------------------------------------------------------------------
(* C20: after a 429 or 503 response with Retry-After: n the call sleeps n
   seconds and sends nothing meanwhile: the request after such a response
   is sent at least n seconds after the request it answered; while the
   call sleeps, every request sent has been answered; the step that ends
   the sleep sends the next attempt when one is left; and a 200 that
   follows the throttled response is returned as the result. *)
Throttled(a) ==
    a.kind = "response" /\ a.status \in {429, 503} /\ IsSome(a.retry_after)

RetryAfterHonoured(l) ==
    \A i \in 1..Len(l.trace) :
        (Throttled(l.trace[i]) /\ i + 1 <= Len(l.sends)) =>
            l.sends[i + 1] >= l.sends[i] + 1000 * l.trace[i].retry_after[1]

C20_RetryAfterHonoured ==
    /\ [](\A p \in Procs :
            /\ pc[p] \in GraphPcs => RetryAfterHonoured(loc[p])
            /\ pc[p] = "q_sleep" =>
                  /\ loc[p].sent = Len(loc[p].trace)
                  /\ Throttled(Last(loc[p].trace)) =>
                        loc[p].delay = 1000 * Last(loc[p].trace).retry_after[1])
    /\ [](RequestEnded =>
            LET t == res.out.seen.trace
                n == Len(t)
            IN /\ RetryAfterHonoured(res.out.seen)
               /\ (n >= 2 /\ Throttled(t[n - 1]) /\ t[n].status = 200) =>
                     /\ res.out.kind = "ok"
                     /\ res.out.value = response_json(t[n].body)
                     /\ res.out.seen.clock >= 1000 * t[n - 1].retry_after[1])
    /\ [][\A p \in Procs :
            (pc[p] = "q_sleep" /\ pc'[p] # "q_sleep"
               /\ loc[p].sent < max_retry_attempts) =>
                  /\ pc'[p] = "q_wait"
                  /\ loc'[p].sent = loc[p].sent + 1
                  /\ Last(loc'[p].sends) = loc[p].clock + loc[p].delay
        ]_vars

(* 429 with Retry-After: 2, then 200: the body is returned after 2 s *)
C20_Witness ==
    /\ RequestEnded
    /\ Statuses(res.out.seen.trace) = <<429, 200>>
    /\ res.out.seen.trace[1].retry_after = Some(2)
    /\ res.out.kind = "ok"
    /\ res.out.value = response_json("data-2")
    /\ res.out.seen.clock = 2000

-----------------------------------------------------------------------------
(* C21 as claimed: a handler that raises leaves the idempotency store as
   it was, and the next call with the same tuple and key, the one that
   starts right after the raise, runs the handler again. *)
C21_RaiseThenRunsAgain ==
    [][\A p \in Procs :
         /\ (pc[p] = "h_run" /\ pc'[p] = "idle" /\ res'.out.kind = "err") =>
               store' = store
         /\ (Starts(p) /\ StartedCall(p).op = "idempotent"
               /\ StartedCall(p).key # <<>>
               /\ res.out.kind = "err"
               /\ res.call = StartedCall(p)) =>
               /\ pc'[p] = "h_run"
               /\ hRuns' = hRuns + 1
      ]_vars

(* C21: a handler that raises leaves the idempotency store as it was, and
   a call with a key whose handler has raised runs the handler again unless
   another call with the same tuple has stored a result that is still
   live; then it returns that result. *)
C21_RaiseCachesNothing ==
    [][\A p \in Procs :
         /\ (pc[p] = "h_run" /\ pc'[p] = "idle" /\ res'.out.kind = "err") =>
               store' = store
         /\ (Starts(p) /\ StartedCall(p).op = "idempotent"
               /\ StartedCall(p).key # <<>>
               /\ IdemTuple(StartedCall(p)) \in raised) =>
               LET k == Key("idempotency", IdemKeyOf(StartedCall(p)))
               IN IF Live(store, k)
                  THEN /\ pc'[p] = "idle"
                       /\ res'.out.value = CacheGet(store, k)[1].result
                       /\ hRuns' = hRuns
                  ELSE /\ pc'[p] = "h_run"
                       /\ hRuns' = hRuns + 1
      ]_vars

(* the handler of a tuple has raised and no result was ever stored; a later
   call with the tuple is running the handler again *)
C21_Witness ==
    \E p \in Procs :
        /\ pc[p] = "h_run"
        /\ call[p].key # <<>>
        /\ IdemTuple(call[p]) \in raised
        /\ loc[p].run = 2
        /\ effects = EmptyMap
        /\ \A q \in Procs \ {p} : pc[q] = "idle"

-----------------------------------------------------------------------------
(* C22: a call of _idempotent whose key is empty or absent (both are the
   empty sequence here, `not idempotency_key`) runs the handler, whatever
   the store holds, and no step of the call changes the idempotency store:
   a read would evict expired entries in it, a write would add one. *)
C22_NoKeyNoStore ==
    [][\A p \in Procs :
         /\ (Starts(p) /\ StartedCall(p).op = "idempotent"
               /\ StartedCall(p).key = <<>>) =>
               /\ pc'[p] = "h_run"
               /\ hRuns' = hRuns + 1
               /\ store' = store
         /\ (pc[p] = "h_run" /\ call[p].key = <<>> /\ pc'[p] # "h_run") =>
               store' = store
      ]_vars

(* two calls with one tuple and no key have both run the handler, and the
   store is as it was *)
C22_Witness ==
    /\ res.call.op = "idempotent"
    /\ res.call.key = <<>>
    /\ res.out.kind = "ok"
    /\ res.out.ran
    /\ IdemTuple(res.call) \in DOMAIN effects
    /\ effects[IdemTuple(res.call)] = 2
    /\ store = EmptyMap

-----------------------------------------------------------------------------
(* C23 as claimed: two calls of _idempotency_cache_key, one after the
   other, whose (tenant_id, user_id, tool_name, key) tuples differ never
   get the same cache key. *)
HasColon(str) == \E i \in 1..Len(str) : str[i] = ":"

KeyCalls ==
    /\ res.call.op = "idempotency_cache_key"
    /\ res'.call.op = "idempotency_cache_key"
    /\ IdemTuple(res.call) # IdemTuple(res'.call)

C23_KeyCanonical ==
    [][KeyCalls => res'.out.value # res.out.value]_vars

(* C23: two calls whose tuples differ never get the same cache key when
   the tenant_id, the user_id and the tool name of both hold no ":"; the
   key may hold any character. *)
C23_KeyCanonicalWithoutColon ==
    [][(/\ KeyCalls
        /\ \A c \in {res.call, res'.call} :
              /\ ~HasColon(c.session.tenant_id)
              /\ ~HasColon(c.session.user_id)
              /\ ~HasColon(c.tool_name)) =>
           res'.out.value # res.out.value]_vars

(* a call with a key that holds a ":" has got its cache key while a call
   for another user waits; the key of that call will differ *)
C23_Witness ==
    /\ res.call.op = "idempotency_cache_key"
    /\ \E q \in Procs :
          /\ pc[q] = "f_call"
          /\ call[q] = [res.call EXCEPT !.session.user_id = <<"u">>]
    /\ res.call.session.user_id = <<"x">>
    /\ res.call.session.tenant_id = <<"t">>
    /\ res.call.key = <<"x", ":", "k">>
    /\ res.out.value = <<"t", ":", "x", ":", "mail_reply", ":", "x", ":", "k">>
    /\ res.out.value # idempotency_cache_key([tenant_id |-> <<"t">>, user_id |-> <<"u">>],
                                             <<"mail_reply">>, <<"x", ":", "k">>)

-----------------------------------------------------------------------------
(* C24: for every list, normalize_scopes returns the stripped non-empty
   scopes of the list, each once, in the order of their first occurrence,
   followed by offline_access when the list did not hold it; the result
   holds offline_access exactly once; normalising the result gives the
   result. *)
FirstIndex(x, list) == CHOOSE i \in 1..Len(list) : list[i] = x /\ \A j \in 1..(i - 1) : list[j] # x

C24_NormalizeScopes ==
    res.call.op = "normalize_scopes" =>
        LET out == res.out.value
            stripped == [i \in 1..Len(res.call.scopes) |-> Strip(res.call.scopes[i])]
            given == {stripped[i] : i \in 1..Len(stripped)} \ {<<>>}
        IN /\ {out[i] : i \in 1..Len(out)} = given \cup {OfflineAccess}
           /\ \A i, j \in 1..Len(out) : out[i] = out[j] => i = j
           /\ \A i, j \in 1..Len(out) :
                 (i < j /\ out[j] \in given) =>
                     /\ out[i] \in given
                     /\ FirstIndex(out[i], stripped) < FirstIndex(out[j], stripped)
           /\ OfflineAccess \notin given => out[Len(out)] = OfflineAccess
           /\ Cardinality({i \in 1..Len(out) : out[i] = OfflineAccess}) = 1
           /\ normalize_scopes(out) = out

(* offline_access given with a blank before it, a scope given twice *)
C24_Witness ==
    /\ res.call.op = "normalize_scopes"
    /\ res.call.scopes = << <<" ">> \o OfflineAccess, <<"m">>, <<"m", " ">> >>
    /\ res.out.value = << OfflineAccess, <<"m">> >>

-----------------------------------------------------------------------------
(* C25: the request complete_pkce sends to the token endpoint carries as
   redirect_uri the one stored in the PKCE Transaction when there is one,
   otherwise the caller's argument when there is one, otherwise
   settings.graph_redirect_uri. *)
C25_RedirectUriOrder ==
    res.call.op = "exchange_request" =>
        res.out.value.redirect_uri =
            IF res.call.stored # "" THEN res.call.stored
            ELSE IF res.call.redirect_uri # "" THEN res.call.redirect_uri
            ELSE graph_redirect_uri

(* nothing stored, the caller names a redirect URI: the caller's is sent *)
C25_Witness ==
    /\ res.call.op = "exchange_request"
    /\ res.call.stored = ""
    /\ res.call.redirect_uri = "cb-b"
    /\ res.out.value.redirect_uri = "cb-b"

-----------------------------------------------------------------------------
(* C26: a Session Record or Refresh-Token Record written with the absolute
   expiry expires_at at time now lives for expires_at - now - skew seconds,
   and for 30 s when that is less: 3300 s for expires_at = now + 3600 with
   the skew of 300, and never less than 30 s, whatever expires_at is. *)
C26_TtlFromExpiresAt ==
    [][\A p \in Procs :
         (Starts(p) /\ StartedCall(p).op = "cache_with_expiry") =>
             LET c == StartedCall(p)
                 k == Key(c.class, c.session_id)
                 ttl == store'[k].exp - now
                 rest == c.expires_at - now - access_token_skew_seconds
             IN /\ k \in DOMAIN store'
                /\ ttl = IF rest > 30 THEN rest ELSE 30
                /\ ttl >= 30
                /\ (c.expires_at = now + 3600) => ttl = 3300
      ]_vars

(* a record written with an expiry that lies in the past, after the clock
   has moved: it lives for 30 s *)
C26_Witness ==
    /\ res.call.op = "cache_with_expiry"
    /\ now > 0
    /\ res.call.expires_at < now
    /\ Key(res.call.class, 1) \in DOMAIN store
    /\ store[Key(res.call.class, 1)].exp = now + 30

-----------------------------------------------------------------------------
(* C27: whenever the Session Record and the Refresh-Token Record of a
   session are both live they expire at the same time, also after
   get_access_token has refreshed the session any number of times. *)
C27_SameLifetime ==
    \A sid \in TokenSids :
        (Live(store, Key("session", sid)) /\ Live(store, Key("refresh", sid))) =>
            store[Key("session", sid)].exp = store[Key("refresh", sid)].exp

-----------------------------------------------------------------------------
(* C28: in every state, whatever the workers are in the middle of and
   whatever has expired, a session id with a live Session Record has a live
   Refresh-Token Record. *)
C28_SessionImpliesRefresh ==
    \A k \in DOMAIN store :
        (k[1] = "session" /\ Live(store, k)) => Live(store, Key("refresh", k[2]))

-----------------------------------------------------------------------------
(* C29: a validate call whose bearer names a kid that the cached JWKS does
   not hold does not fail on the spot: it goes to fetch the JWKS again, and
   it ends with AUTH_REQUIRED for an unknown kid only on the answer of that
   fetch. *)
C29_RefetchOnUnknownKid ==
    [][\A p \in Procs :
         (/\ Starts(p)
          /\ StartedCall(p).op = "validate"
          /\ IsSome(jwks)
          /\ StartedCall(p).token.kid # ""
          /\ StartedCall(p).token.kid \notin jwks[1]) =>
             pc'[p] = "v_jwks"
      ]_vars

-----------------------------------------------------------------------------
(* C30: on the Redis back-end every value in the store, of whatever record
   class, is a ciphertext. *)
C30_RedisWritesEncrypted ==
    backend = "redis" =>
        \A k \in DOMAIN store : "ciphertext" \in DOMAIN store[k].payload


-----------------------------------------------------------------------------
(* C31: decode_base64_payload returns the decoded bytes when their length
   is at most max_bytes, the length max_bytes itself included, and raises
   VALIDATION_ERROR with status 413 when it is greater. The bytes are told
   by encoding them: a payload that is the base64 encoding of `raw` gives
   `raw` back or the 413; whatever the payload, bytes that are returned are
   no more than max_bytes and a 413 is raised only over more than that. *)
B64Char(d) == IF d = 0 THEN "A" ELSE IF d = 63 THEN "/" ELSE "?"

RECURSIVE b64encode(_)
b64encode(raw) ==
    IF raw = <<>> THEN <<>>
    ELSE IF Len(raw) = 1
    THEN <<B64Char(raw[1] \div 4), B64Char((raw[1] % 4) * 16), "=", "=">>
    ELSE IF Len(raw) = 2
    THEN <<B64Char(raw[1] \div 4),
           B64Char((raw[1] % 4) * 16 + raw[2] \div 16),
           B64Char((raw[2] % 16) * 4), "=">>
    ELSE <<B64Char(raw[1] \div 4),
           B64Char((raw[1] % 4) * 16 + raw[2] \div 16),
           B64Char((raw[2] % 16) * 4 + raw[3] \div 64),
           B64Char(raw[3] % 64)>> \o b64encode(SubSeq(raw, 4, Len(raw)))

RawBytes == UNION { [1..n -> {0, 3, 63, 240, 252, 255}] : n \in 0..3 }

C31_DecodeWithinLimit ==
    res.call.op = "decode_base64_payload" =>
        /\ \A raw \in RawBytes :
              b64encode(raw) = res.call.payload =>
                  res.out = IF Len(raw) <= res.call.max_bytes
                            THEN Ok(raw)
                            ELSE MCPError("VALIDATION_ERROR", 413)
        /\ res.out.kind = "ok" => Len(res.out.value) <= res.call.max_bytes
        /\ res.out.kind = "err" =>
              \/ res.out = BinasciiError
              \/ /\ res.out = MCPError("VALIDATION_ERROR", 413)
                 /\ b64decode(res.call.payload).ok
                 /\ Len(b64decode(res.call.payload).bytes) > res.call.max_bytes

(* three bytes are returned against a limit of three *)
C31_Witness ==
    /\ res.call.op = "decode_base64_payload"
    /\ res.call.max_bytes = 3
    /\ res.call.payload = b64encode(<<3, 240, 63>>)
    /\ res.out = Ok(<<3, 240, 63>>)


-----------------------------------------------------------------------------
(* C32: a refresh failure is terminal for the session: once the token
   endpoint has turned down a session's refresh token, no get_access_token
   for that session sends that refresh token to the token endpoint again.
   Stated on the step that sends a refresh_token request. *)
C32_RefreshFailureTerminal ==
    [][\A p \in Procs :
          (pc[p] = "g_rref" /\ pc'[p] = "g_await") =>
              <<call[p].session_id, loc'[p].refresh_token>> \notin rejected]_vars


-----------------------------------------------------------------------------
(* C33: in a mutating tool call that carries an idempotency key, the
   Idempotency Coordinator is consulted before the Token Service: while the
   key's result is cached, the call does not invoke get_access_token.
   Stated on the step in which a tool call enters get_access_token. *)
ResultCached(c) ==
    /\ c.key # <<>>
    /\ LET cached == get_idempotency(store, IdemKeyOf(c))
       IN IsSome(cached) /\ "result" \in DOMAIN cached[1]

C33_IdempotencyBeforeToken ==
    [][\A p \in Procs :
          (pc[p] = "m_token" /\ pc'[p] # "m_token") => ~ResultCached(call[p])]_vars


-----------------------------------------------------------------------------
(* C34: request_raw retries as request does: a call of request_raw whose
   HTTP requests were all answered with 429, 503 or a status >= 500 has
   made max_retry_attempts of them when it raises UPSTREAM_ERROR. *)
C34_RequestRawRetries ==
    res.call.op = "request_raw" =>
        LET t == res.out.seen.trace
        IN AllRetryable(t) =>
              /\ Len(t) = max_retry_attempts
              /\ res.out.kind = "err"
              /\ res.out.code = "UPSTREAM_ERROR"


-----------------------------------------------------------------------------
(* C35: the two cache back-ends are interchangeable for the session
   resolver: every cache operation resolve uses, cache_session included,
   is supported by the back-end in use, so a resolve (on its own or inside
   auth_logout) ends as it can end on the remote back-end: with a result or
   with AUTH_REQUIRED. *)
C35_BackendsInterchangeable ==
    res.call.op \in {"resolve", "auth_logout"} =>
        \/ res.out.kind = "ok"
        \/ res.out = AuthRequired


-----------------------------------------------------------------------------
(* C36: the next-page cursor is null when @odata.nextLink is absent or has
   no "$skiptoken=", and otherwise is what follows the last "=" of the
   link, whatever the link: also when the skiptoken value holds "=" or
   further query parameters follow it. *)
AfterLastEquals(next_link) ==
    LET i == CHOOSE j \in 1..Len(next_link) :
                 /\ next_link[j] = "="
                 /\ \A k \in (j + 1)..Len(next_link) : next_link[k] # "="
    IN SubSeq(next_link, i + 1, Len(next_link))

C36_CursorAfterLastEquals ==
    res.call.op = "next_cursor" =>
        LET next_link == res.call.next_link
        IN res.out.value =
              IF /\ IsSome(next_link)
                 /\ \E i \in 1..Len(next_link[1]) : HasSkiptoken(next_link[1], i)
              THEN Some(AfterLastEquals(next_link[1]))
              ELSE None


-----------------------------------------------------------------------------
(* C37, as claimed: for every expires_in the Access-Token Cache Entry
   expires no later than the token itself, and a cached token that is
   returned is not past its expires_in. *)
Plain(payload) ==
    IF "ciphertext" \in DOMAIN payload THEN payload.ciphertext ELSE payload
AccessKeys ==
    {k \in DOMAIN store : k[1] = "access" /\ "iat" \in DOMAIN Plain(store[k].payload).token}
TokenExpiry(token) == token.iat + token.expires_in

C37_EntryNeverOutlivesToken ==
    /\ \A k \in AccessKeys : store[k].exp <= TokenExpiry(Plain(store[k].payload).token)
    /\ (res.call.op = "Cache.get_access_token" /\ IsSome(res.out.value)) =>
          now <= TokenExpiry(res.out.value[1])

(* C37, amended: the entry lives max(expires_in - skew, 30) seconds. For
   expires_in of at least the floor of 30 s it expires no later than the
   token and a cached token that is returned is still valid; for a shorter
   expires_in the entry lives the 30 s of the floor. *)
C37_EntryWithinTokenOrFloor ==
    /\ \A k \in AccessKeys :
          LET token == Plain(store[k].payload).token
          IN /\ token.expires_in >= TtlFloor => store[k].exp <= TokenExpiry(token)
             /\ token.expires_in >= TtlFloor + access_token_skew_seconds =>
                   store[k].exp = TokenExpiry(token) - access_token_skew_seconds
             /\ token.expires_in < TtlFloor => store[k].exp = token.iat + TtlFloor
    /\ (res.call.op = "Cache.get_access_token" /\ IsSome(res.out.value)) =>
          LET token == res.out.value[1]
          IN /\ token.expires_in >= TtlFloor => now < TokenExpiry(token)
             /\ now < token.iat + Max(token.expires_in, TtlFloor)

(* a token with expires_in 330 is returned from the cache 25 s after it
   was issued, five seconds before its entry goes *)
C37_Witness ==
    /\ res.call.op = "Cache.get_access_token"
    /\ IsSome(res.out.value)
    /\ res.out.value[1].expires_in = 330
    /\ now = res.out.value[1].iat + 25


-----------------------------------------------------------------------------
(* C38, as claimed: in every reachable state in which the Session Record
   of a session created by complete_pkce is live, its Access-Token Cache
   Entry is live too. Stated for the remote back-end, whose content other
   workers can read at any moment. *)
C38_SessionImpliesAccess ==
    backend = "redis" =>
        \A sid \in 1..nSess :
            Live(store, Key("session", sid)) => Live(store, Key("access", sid))

(* C38, amended: the same from the moment complete_pkce has returned the
   session id. Then the two entries also expire at the same time and
   cache.get_access_token finds the token, so a get_access_token that
   follows a resolve served from the cache does not reach the refresh
   branch. *)
C38_KnownSessionImpliesAccess ==
    \A sid \in KnownSids :
        Live(store, Key("session", sid)) =>
            /\ Live(store, Key("access", sid))
            /\ store[Key("access", sid)].exp = store[Key("session", sid)].exp
            /\ IsSome(Cache_get_access_token(store, sid))

(* resolve has returned the cached Session Record of a session created by
   complete_pkce ten minutes after it was created *)
C38_Witness ==
    /\ res.call.op = "resolve"
    /\ res.call.session_id \in KnownSids
    /\ res.out.kind = "ok"
    /\ now >= 600
    /\ Live(store, Key("session", res.call.session_id))
    /\ IsSome(Cache_get_access_token(store, res.call.session_id))


-----------------------------------------------------------------------------
(* C39: a logged-out session is not brought back by a refresh in flight:
   when auth_logout(sid) has returned and no call is in progress any more,
   the cache holds no Refresh-Token Record and no Access-Token Cache Entry
   for sid (session 1 has no access entry to begin with, so any there is
   was written since). *)
C39_LogoutNotResurrected ==
    (\A p \in Procs : pc[p] = "idle") =>
        \A sid \in loggedOut :
            /\ ~Live(store, Key("refresh", sid))
            /\ ~Live(store, Key("access", sid))


-----------------------------------------------------------------------------
(* C40: the scopes stored in a session's Refresh-Token Record are never
   empty, also after a refresh whose response omits scope. *)
C40_RefreshScopesNeverEmpty ==
    \A k \in DOMAIN store :
        k[1] = "refresh" => Plain(store[k].payload).scopes # <<>>

====
